---- MODULE Spec2Model ----
(***************************************************************************)
(* Time-Series-Visualizer backend: src/data.py (CSV parser, columnar       *)
(* cache, dataset registry, LTTB downsampler, slice queries) and           *)
(* src/main.py (FastAPI handlers operating on the process-wide             *)
(* MultiSeriesData instance multi_data).                                   *)
(*                                                                         *)
(* Numbers are integers: every sample value used here is an integer that  *)
(* float64 holds exactly.  F32 models the conversion to float32 at the     *)
(* cache and numpy boundary.  The triangle areas of lttb_downsample are    *)
(* compared exactly, which selects the same indices as the float64         *)
(* arithmetic of the source on the sample values used here.  Python's      *)
(* 0-based indices are kept in the algorithms and shifted by one only when *)
(* a TLA+ sequence is read.                                                *)
(* The cross-correlation of the AlignmentService is computed exactly on   *)
(* the mean-subtracted signals scaled to integers; float32 rounding of the *)
(* correlation is not modelled.                                            *)
(* Each handler is one step, except in SpecThreads, where the writers and  *)
(* the registry readers advance statement by statement and interleave.     *)
(***************************************************************************)
EXTENDS Integers, Sequences, FiniteSets, TLC

----------------------------------------------------------------------------
(* Bounds of the model *)

\* longest series handed to lttb_downsample in SpecLttb
MaxLen == 5
\* sample values of SpecLttb are 0 .. MaxVal
MaxVal == 1
\* largest target_points in SpecLttb (the smallest is 3)
MaxK == 4
\* uploads accepted over a run of Spec (each stamps a new mtime)
MaxUploads == 2
\* longest template of SpecLag; the targets are up to MaxShift longer
MaxSig == 3
MaxShift == 2
\* the samples of SpecLag are -MaxAmp .. MaxAmp
MaxAmp == 1
\* longest series list of a group in SpecHier
MaxGroup == 2
\* rows and columns of the files of SpecParse
MaxRows == 2
MaxCols == 2

----------------------------------------------------------------------------
(* Generic helpers *)

Min(a, b) == IF a < b THEN a ELSE b
Max(a, b) == IF a > b THEN a ELSE b
Abs(a) == IF a < 0 THEN -a ELSE a

\* Python slice s[lo:hi] for 0 <= lo, 0 <= hi (0-based, hi exclusive, clipped)
Slice(s, lo, hi) ==
    LET h == Min(hi, Len(s))
    IN  IF lo >= h THEN <<>> ELSE SubSeq(s, lo + 1, h)

RECURSIVE SumSeq(_)
SumSeq(s) == IF s = <<>> THEN 0 ELSE Head(s) + SumSeq(Tail(s))

\* smallest power of two u with v < 2^24 * u : the float32 spacing at v
RECURSIVE Ulp32(_, _)
Ulp32(v, u) == IF v < 16777216 * u THEN u ELSE Ulp32(v, 2 * u)

\* the float NaN that pandas puts in an empty cell; it is no sample value
NaN == -(1024 * 1024 * 1024)

\* a float64 sample that is no float32 value: 2^24 + 1, which rounds to 2^24
Unrounded == 16777216 + 1

\* astype(np.float32) / np.array(..., dtype=np.float32) on an integer value:
\* round to the nearest multiple of the spacing, ties to the even multiple
F32(v) ==
    IF v = NaN THEN NaN ELSE
    LET a == Abs(v)
        u == Ulp32(a, 1)
        q == a \div u
        r == a % u
        m == IF 2 * r > u \/ (2 * r = u /\ q % 2 = 1) THEN q + 1 ELSE q
    IN  IF v < 0 THEN -(m * u) ELSE m * u

F32Seq(s) == [i \in 1..Len(s) |-> F32(s[i])]

----------------------------------------------------------------------------
(* lttb_downsample, src/data.py:47-114 *)

\* int(m * bucket_size) with bucket_size = (n - 2) / (target_points - 2).
\* The quotient is computed exactly; the float product of the source agrees
\* with it for every n < 17, which covers the lengths used here.
BucketEdge(m, n, target_points) == (m * (n - 2)) \div (target_points - 2)

\* twice the triangle area of lines 97-100, scaled by the size cnt of the
\* next bucket so that the mean (sx / cnt, sy / cnt) stays an integer
AreaScaled(x, y, a, j, sx, sy, cnt) ==
    Abs( (x[a + 1] * cnt - sx) * (y[j + 1] - y[a + 1])
       - (x[a + 1] - x[j + 1]) * (sy - y[a + 1] * cnt) )

\* the area of lines 97-100 is NaN: the comparison of line 102 is then false
AreaIsNaN(x, y, a, j, nanAvg) ==
    nanAvg \/ x[a + 1] = NaN \/ y[a + 1] = NaN \/ x[j + 1] = NaN \/ y[j + 1] = NaN

\* BucketArgMax with max_idx initialised to 0 instead of bucket_start
BucketArgMaxZeroInit(x, y, a, bucket_start, bucket_end, sx, sy, cnt, nanAvg) ==
    LET R == {j \in bucket_start .. (bucket_end - 1) : ~AreaIsNaN(x, y, a, j, nanAvg)}
        A(j) == AreaScaled(x, y, a, j, sx, sy, cnt)
    IN  IF R = {} THEN 0
        ELSE CHOOSE j \in R : \A k \in R : A(k) < A(j) \/ (A(k) = A(j) /\ j <= k)

\* lines 92-104: the first j of range(bucket_start, bucket_end) with the
\* strictly largest area; bucket_start when no j has an area above -1
BucketArgMax(x, y, a, bucket_start, bucket_end, sx, sy, cnt, nanAvg) ==
    LET R == {j \in bucket_start .. (bucket_end - 1) : ~AreaIsNaN(x, y, a, j, nanAvg)}
        A(j) == AreaScaled(x, y, a, j, sx, sy, cnt)
    IN  IF R = {} THEN bucket_start
        ELSE CHOOSE j \in R : \A k \in R : A(k) < A(j) \/ (A(k) = A(j) /\ j <= k)

\* one iteration of the loop of lines 73-108: the selected source index
LttbPick(x, y, target_points, i, a) ==
    LET n == Len(x)
        bucket_start == BucketEdge(i + 1, n, target_points) + 1
        bucket_end == Min(BucketEdge(i + 2, n, target_points) + 1, n - 1)
        next_bucket_start == BucketEdge(i + 2, n, target_points) + 1
        next_bucket_end == Min(BucketEdge(i + 3, n, target_points) + 1, n)
        inNext == next_bucket_start < n
        nx == IF inNext THEN Slice(x, next_bucket_start, next_bucket_end) ELSE <<x[n]>>
        ny == IF inNext THEN Slice(y, next_bucket_start, next_bucket_end) ELSE <<y[n]>>
        nanAvg == \E k \in 1..Len(nx) : nx[k] = NaN \/ ny[k] = NaN
    IN  BucketArgMax(x, y, a, bucket_start, bucket_end,
                     SumSeq(nx), SumSeq(ny), Len(nx), nanAvg)

\* the loop of lines 73-108: acc is the list of selected 0-based indices
RECURSIVE LttbLoop(_, _, _, _, _, _)
LttbLoop(x, y, target_points, i, a, acc) ==
    IF i >= target_points - 2 THEN acc
    ELSE LET max_idx == LttbPick(x, y, target_points, i, a)
         IN  LttbLoop(x, y, target_points, i + 1, max_idx, Append(acc, max_idx))

\* LttbIndices without the final append of lines 110-112
LttbIndicesNoLast(x, y, target_points) ==
    IF Len(x) <= target_points THEN [i \in 1..Len(x) |-> i - 1]
    ELSE LttbLoop(x, y, target_points, 0, 0, <<0>>)

\* the 0-based source indices behind the returned points, in output order
LttbIndices(x, y, target_points) ==
    IF Len(x) <= target_points THEN [i \in 1..Len(x) |-> i - 1]
    ELSE Append(LttbLoop(x, y, target_points, 0, 0, <<0>>), Len(x) - 1)

\* line 69: (n - 2) / (target_points - 2) raises ZeroDivisionError
LttbRaises(x, target_points) == Len(x) > target_points /\ target_points = 2

lttb_downsample(x, y, target_points) ==
    IF Len(x) <= target_points THEN [x |-> x, y |-> y]
    ELSE LET idx == LttbIndices(x, y, target_points)
         IN  [x |-> [k \in 1..Len(idx) |-> F32(x[idx[k] + 1])],
              y |-> [k \in 1..Len(idx) |-> F32(y[idx[k] + 1])]]

----------------------------------------------------------------------------
(* Text.  A Python string is a sequence of tokens: a white-space character, *)
(* the byte order mark U+FEFF, a number literal or a word.                  *)

Ws == [k |-> "ws", v |-> 0, s |-> ""]
Bom == [k |-> "bom", v |-> 0, s |-> ""]
N(v) == [k |-> "num", v |-> v, s |-> ""]
T(s) == [k |-> "txt", v |-> 0, s |-> s]

RECURSIVE LStripTok(_, _)
LStripTok(c, tok) ==
    IF c # <<>> /\ Head(c) = tok THEN LStripTok(Tail(c), tok) ELSE c

RECURSIVE RStripTok(_, _)
RStripTok(c, tok) ==
    IF c # <<>> /\ c[Len(c)] = tok THEN RStripTok(SubSeq(c, 1, Len(c) - 1), tok) ELSE c

\* str.strip(): U+FEFF is not white space
Strip(c) == RStripTok(LStripTok(c, Ws), Ws)

\* str.lstrip(U+FEFF)
LStripBom(c) == LStripTok(c, Bom)

LowerWord(w) ==
    CASE w = "Time[s]" -> "time[s]"
      [] w = "TIME" -> "time"
      [] w = "Time" -> "time"
      [] w = "T" -> "t"
      [] OTHER -> w

\* str.lower()
Lower(c) == [i \in 1..Len(c) |-> IF c[i].k = "txt" THEN T(LowerWord(c[i].s)) ELSE c[i]]

\* float(cell) succeeds: white space around one number literal
IsFloat(c) == Len(Strip(c)) = 1 /\ Strip(c)[1].k = "num"
Float(c) == Strip(c)[1].v

----------------------------------------------------------------------------
(* Multi-channel format, src/data.py:8-44 *)

EXPECTED_CHANNEL_COUNT == 16

ChannelIds ==
    << "AI2-01", "AI2-02", "AI2-03", "AI2-04", "AI2-05", "AI2-06", "AI2-07", "AI2-08",
       "AI2-09", "AI2-10", "AI2-11", "AI2-12", "AI2-13", "AI2-14", "AI2-15", "AI2-16" >>

\* f"AI2-{str(i).zfill(2)}" as a string
ChannelId(i) == <<T(ChannelIds[i])>>

MULTI_CHANNEL_HEADERS ==
    <<<<T("time[s]")>>>> \o [i \in 1..EXPECTED_CHANNEL_COUNT |-> ChannelId(i)]

validate_multi_channel_format(headers) ==
    /\ Len(headers) = Len(MULTI_CHANNEL_HEADERS)
    /\ Lower(LStripBom(Strip(headers[1]))) = <<T("time[s]")>>
    /\ \A i \in 1..16 : Strip(headers[i + 1]) = ChannelId(i)

----------------------------------------------------------------------------
(* Python dict with insertion order: keys in order, val on the key set *)

EmptyDict == [keys |-> <<>>, val |-> <<>>]

InSeq(s, e) == \E i \in 1..Len(s) : s[i] = e

HasKey(d, k) == InSeq(d.keys, k)

\* d[k] = v
DictPut(d, k, v) ==
    [keys |-> IF HasKey(d, k) THEN d.keys ELSE Append(d.keys, k),
     val |-> [q \in DOMAIN d.val \cup {k} |-> IF q = k THEN v ELSE d.val[q]]]

\* d.update(e)
RECURSIVE DictUpdateFrom(_, _, _)
DictUpdateFrom(d, e, i) ==
    IF i > Len(e.keys) THEN d
    ELSE DictUpdateFrom(DictPut(d, e.keys[i], e.val[e.keys[i]]), e, i + 1)

DictUpdate(d, e) == DictUpdateFrom(d, e, 1)

----------------------------------------------------------------------------
(* TimeSeriesData.load_data, src/data.py:125-215 *)

TimeHeaderNames == {<<T("time")>>, <<T("t")>>, <<T("timestamp")>>, <<T("time[s]")>>}

\* lines 171-177 taking the first column for the time whatever its name
TimeIndexFirstColumn(headers) == IF headers = <<>> THEN -1 ELSE 0

\* lines 171-177: 0-based index of the first header naming time, -1 for None
TimeIndex(headers) ==
    LET hits == {i \in 1..Len(headers) : Lower(Strip(headers[i])) \in TimeHeaderNames}
    IN  IF hits = {} THEN -1
        ELSE (CHOOSE i \in hits : \A j \in hits : i <= j) - 1

\* lines 180-183
ColumnNames(headers, column_count) ==
    IF headers # <<>> THEN headers
    ELSE [i \in 1..column_count |-> <<T("col_"), N(i - 1)>>]

\* lines 189-192
SeriesName(col_name, series_prefix, multi_mode) ==
    IF multi_mode THEN Strip(col_name)
    ELSE <<T(series_prefix), T(":")>> \o col_name

\* lines 196-198: the row has a usable time cell (or there is no time column)
RowTaken(row, time_index) ==
    time_index = -1 \/ (time_index < Len(row) /\ row[time_index + 1] # <<>>)

\* lines 204-207: the cell of column col (0-based) of the row is taken
CellTaken(row, col, time_index) ==
    col # time_index /\ col < Len(row) /\ row[col + 1] # <<>>

\* a float() of lines 199 and 213 raises ValueError on some taken cell
RowsRaise(data_rows, ncols, time_index) ==
    \E r \in 1..Len(data_rows) :
        LET row == data_rows[r]
        IN  /\ RowTaken(row, time_index)
            /\ \/ time_index # -1 /\ ~IsFloat(row[time_index + 1])
               \/ \E col \in 0..(ncols - 1) :
                      CellTaken(row, col, time_index) /\ ~IsFloat(row[col + 1])

\* lines 195-213 for one series: the (row, column) pairs appended to it, in order
SeriesCells(data_rows, column_names, time_index, name, series_prefix, mcm) ==
    LET C == Len(column_names)
        all == [k \in 1..(Len(data_rows) * C) |-> <<(k - 1) \div C, (k - 1) % C>>]
        Mine(p) ==
            /\ RowTaken(data_rows[p[1] + 1], time_index)
            /\ CellTaken(data_rows[p[1] + 1], p[2], time_index)
            /\ SeriesName(column_names[p[2] + 1], series_prefix, mcm) = name
    IN  SelectSeq(all, Mine)

SeriesOf(data_rows, column_names, time_index, name, series_prefix, mcm) ==
    LET cells == SeriesCells(data_rows, column_names, time_index, name, series_prefix, mcm)
        XVal(p) == IF time_index # -1 THEN Float(data_rows[p[1] + 1][time_index + 1])
                   ELSE p[1]
    IN  [x |-> [k \in 1..Len(cells) |-> XVal(cells[k])],
         y |-> [k \in 1..Len(cells) |->
                             Float(data_rows[cells[k][1] + 1][cells[k][2] + 1])]]

\* lines 185-193: the keys of data in insertion order
RECURSIVE SeriesKeys(_, _, _, _, _, _)
SeriesKeys(column_names, time_index, series_prefix, mcm, i, acc) ==
    IF i > Len(column_names) THEN acc
    ELSE LET nm == SeriesName(column_names[i], series_prefix, mcm)
         IN  SeriesKeys(column_names, time_index, series_prefix, mcm, i + 1,
                        IF i - 1 = time_index \/ InSeq(acc, nm) THEN acc
                        ELSE Append(acc, nm))

Loaded(d) == [status |-> "ok", data |-> d]
LoadFormatError == [status |-> "format_error", data |-> EmptyDict]
LoadValueError == [status |-> "error", data |-> EmptyDict]

\* rows are the rows csv.reader yields, in file order (an empty line is <<>>)
load_data(file_rows, series_prefix, multi_mode) ==
    LET rows == SelectSeq(file_rows, LAMBDA r : r # <<>>)
        first_row == rows[1]
        has_header == \E i \in 1..Len(first_row) : ~IsFloat(first_row[i])
        headers == IF has_header THEN [i \in 1..Len(first_row) |-> Strip(first_row[i])]
                   ELSE <<>>
        data_rows == IF has_header THEN Tail(rows) ELSE rows
        column_count == Len(data_rows[1])
        time_index == TimeIndex(headers)
        column_names == ColumnNames(headers, column_count)
        keys == SeriesKeys(column_names, time_index, series_prefix,
                           multi_mode, 1, <<>>)
    IN  IF rows = <<>> THEN Loaded(EmptyDict)
        ELSE IF data_rows = <<>> THEN Loaded(EmptyDict)
        ELSE IF multi_mode /\ ~validate_multi_channel_format(headers)
             THEN LoadFormatError
        ELSE IF column_count = 1
             THEN IF \E r \in 1..Len(data_rows) : ~IsFloat(data_rows[r][1])
                  THEN LoadValueError
                  ELSE Loaded([keys |-> << <<T(series_prefix)>> >>,
                               val |-> [q \in { <<T(series_prefix)>> } |->
                                   [x |-> [r \in 1..Len(data_rows) |-> r - 1],
                                    y |-> [r \in 1..Len(data_rows) |-> Float(data_rows[r][1])]]]])
        ELSE IF RowsRaise(data_rows, Len(column_names), time_index) THEN LoadValueError
        ELSE Loaded([keys |-> keys,
                     val |-> [q \in {keys[i] : i \in 1..Len(keys)} |->
                         SeriesOf(data_rows, column_names, time_index, q,
                                  series_prefix, multi_mode)]])

----------------------------------------------------------------------------
(* The files a client uploads *)

LARGE_FILE_THRESHOLD == 50 * 1024 * 1024
MAX_UPLOAD_SIZE == 1024 * 1024 * 1024

\* Path(filename).stem
Stem(filename) ==
    CASE filename = "a.csv" -> "a"
      [] filename = "b.csv" -> "b"
      [] OTHER -> filename

CellRow(values) == [i \in 1..Len(values) |-> <<N(values[i])>>]

\* a row of a 16-channel recording: time t, channel c reads base + 10 * t + c
ChannelRow(t, base) ==
    <<<<N(t)>>>> \o [c \in 1..EXPECTED_CHANNEL_COUNT |-> <<N(base + 10 * t + c)>>]

\* 4 rows, complete
GoodRows == <<MULTI_CHANNEL_HEADERS>> \o [r \in 1..4 |-> ChannelRow(r - 1, 100)]

\* 2 rows; the second row has an empty AI2-02 cell
RaggedRows ==
    <<MULTI_CHANNEL_HEADERS, ChannelRow(0, 200),
      [ChannelRow(1, 200) EXCEPT ![3] = <<>>]>>

\* time,v / 0,5 / 1,6
LegacyRows == << <<<<T("time")>>, <<T("v")>>>>, CellRow(<<0, 5>>), CellRow(<<1, 6>>) >>

\* a 16-channel recording whose AI2-01 cell is not a number
BadCellRows ==
    <<MULTI_CHANNEL_HEADERS, [ChannelRow(0, 300) EXCEPT ![2] = <<T("x")>>]>>

UploadedFile(filename, rows, size) == [filename |-> filename, rows |-> rows, size |-> size]

FileNames == {"a.csv", "b.csv"}

Uploads ==
    { UploadedFile("a.csv", GoodRows, LARGE_FILE_THRESHOLD + 1),
      UploadedFile("b.csv", RaggedRows, 4096),
      UploadedFile("a.csv", LegacyRows, 64),
      UploadedFile("b.csv", BadCellRows, 2048),
      UploadedFile("b.csv", GoodRows, MAX_UPLOAD_SIZE + 1) }

\* a 16-channel recording with the given time column whose channel c reads
\* signal + c - 1 (AI2-01 reads the signal itself)
Recording(times, sig) ==
    <<MULTI_CHANNEL_HEADERS>> \o
    [r \in 1..Len(times) |->
        <<<<N(times[r])>>>> \o [c \in 1..EXPECTED_CHANNEL_COUNT |-> <<N(sig[r] + c - 1)>>]]

\* a pulse sampled every 2 time units, the same pulse one sample later on a
\* unit grid, a recording whose time column does not advance, one of 1 row
PulseRows == Recording(<<0, 2, 4, 6, 8>>, <<0, 1, 0, 0, 0>>)
LatePulseRows == Recording(<<0, 1, 2, 3, 4>>, <<0, 0, 1, 0, 0>>)
StalledRows == Recording(<<5, 5, 5, 5>>, <<0, 0, 1, 0>>)
SingleRows == Recording(<<0>>, <<1>>)

\* the uploads of the dataset-alignment runs, all in multi-channel mode
AlignUploads ==
    { UploadedFile("a.csv", PulseRows, LARGE_FILE_THRESHOLD + 1),
      UploadedFile("a.csv", PulseRows, 4096),
      UploadedFile("b.csv", LatePulseRows, 4096),
      UploadedFile("b.csv", StalledRows, 2048),
      UploadedFile("b.csv", SingleRows, 1024) }

\* a recording whose last time stamp, 2^24 + 1, is no float32 value
FineRows == Recording(<<0, 1, 2, Unrounded>>, <<0, 1, 0, 0>>)

\* the uploads of the slice-query runs: each recording under a name of its
\* own, once above and once below LARGE_FILE_THRESHOLD
QueryUploads ==
    { UploadedFile("a.csv", PulseRows, LARGE_FILE_THRESHOLD + 1),
      UploadedFile("a.csv", PulseRows, 4096),
      UploadedFile("b.csv", FineRows, LARGE_FILE_THRESHOLD + 1),
      UploadedFile("b.csv", FineRows, 4096) }

\* an empty file; a file of one header row, time,v; a file with no header row
EmptyFileRows == <<>>
HeaderOnlyRows == << <<<<T("time")>>, <<T("v")>>>> >>
HeaderlessRows == <<CellRow(<<0, 5>>), CellRow(<<1, 6>>)>>

\* the file with a byte order mark before its first cell
WithBom(file_rows) == [file_rows EXCEPT ![1][1] = <<Bom>> \o @]

\* the uploads of the header-check runs
FormatUploads ==
    { UploadedFile("a.csv", EmptyFileRows, 0),
      UploadedFile("a.csv", HeaderOnlyRows, 16),
      UploadedFile("a.csv", HeaderlessRows, 32),
      UploadedFile("a.csv", LegacyRows, 64),
      UploadedFile("a.csv", WithBom(LegacyRows), 67),
      UploadedFile("b.csv", GoodRows, 4096),
      UploadedFile("b.csv", WithBom(GoodRows), 4099),
      UploadedFile("b.csv", WithBom(GoodRows), LARGE_FILE_THRESHOLD + 1),
      UploadedFile("b.csv", HeaderlessRows, LARGE_FILE_THRESHOLD + 1) }

Catalog == Uploads \cup AlignUploads \cup QueryUploads \cup FormatUploads

\* load_data on the files of the catalog, computed once per file, prefix and mode
LoadedFiles ==
    [k \in {<<u.rows, Stem(u.filename), m>> : u \in Catalog, m \in BOOLEAN} |->
        load_data(k[1], k[2], k[3])]

LoadFile(file_rows, series_prefix, multi_mode) ==
    LoadedFiles[<<file_rows, series_prefix, multi_mode>>]

----------------------------------------------------------------------------
(* Files.  disk is the upload directory, cache the directory CACHE_DIR.     *)

NoFile == [exists |-> FALSE, rows |-> <<>>, size |-> 0, mtime |-> 0]

\* get_cache_path / get_time_cache_path, src/data.py:246-254: the name is made
\* of the stem, the column and the digest of path and current mtime.  The
\* digest is taken as injective (collisions of its last 8 digits are ignored).
TimeCol == <<T("time")>>

get_cache_path(dsk, filepath, channel_id) ==
    [path |-> filepath, mtime |-> dsk[filepath].mtime, col |-> channel_id]

get_time_cache_path(dsk, filepath) == get_cache_path(dsk, filepath, TimeCol)

CacheExists(cch, p) == p \in DOMAIN cch

\* np.save(path, array): the whole file under its final name
SavedFile(values) == [complete |-> TRUE, data |-> values]
\* what an interrupted np.save leaves under the same name
TruncatedFile == [complete |-> FALSE, data |-> <<>>]

CachePut(cch, p, f) == [q \in DOMAIN cch \cup {p} |-> IF q = p THEN f ELSE cch[q]]

\* is_cached, src/data.py:256-266
is_cached(dsk, cch, filepath) ==
    /\ CacheExists(cch, get_time_cache_path(dsk, filepath))
    /\ \E i \in 1..16 : CacheExists(cch, get_cache_path(dsk, filepath, ChannelId(i)))

\* the header line read at src/data.py:276-278
HeaderLine(file_rows) ==
    IF file_rows = <<>> \/ file_rows[1] = <<>> THEN << <<>> >>
    ELSE [i \in 1..Len(file_rows[1]) |-> Strip(file_rows[1][i])]

\* pandas.read_csv(dtype=float64): the data rows under the header row
PandasRows(file_rows) == Tail(SelectSeq(file_rows, LAMBDA r : r # <<>>))

PandasCell(row, col) == IF col > Len(row) \/ row[col] = <<>> THEN NaN ELSE Float(row[col])

PandasRaises(file_rows) ==
    \E r \in 1..Len(PandasRows(file_rows)) :
        LET row == PandasRows(file_rows)[r]
        IN  \/ Len(row) > Len(MULTI_CHANNEL_HEADERS)
            \/ \E c \in 1..Len(row) : row[c] # <<>> /\ ~IsFloat(row[c])

\* column col (1 = time) of the parsed file as float32, src/data.py:307, 314
ColumnArrayOf(file_rows, col) ==
    LET rows == PandasRows(file_rows)
    IN  [r \in 1..Len(rows) |-> F32(PandasCell(rows[r], col))]

\* the header check and the chunked read of lines 276-304 on the files of
\* the catalog, computed once per file
ParsedFiles ==
    [k \in {u.rows : u \in Catalog} |->
        LET valid == validate_multi_channel_format(HeaderLine(k))
            raises == valid /\ PandasRaises(k)
        IN  [valid |-> valid, raises |-> raises,
             columns |-> IF valid /\ ~raises
                         THEN [c \in 1..Len(MULTI_CHANNEL_HEADERS) |->
                                            ColumnArrayOf(k, c)]
                         ELSE <<>>]]

ColumnArray(file_rows, col) == ParsedFiles[file_rows].columns[col]

\* An I/O failure of the materialization: the np.save of column number `at`
\* (0 = time, 1..16 = channels) raises, leaving a truncated file (left = TRUE)
\* or nothing under its name; at = NoFailure is a run without failure.
NoFailure == 0 - 1

\* the np.save calls of lines 308 and 313-316 up to the failure point
RECURSIVE WriteColumns(_, _, _, _, _, _)
WriteColumns(cch, dsk, filepath, channels, k, io) ==
    IF k > Len(channels) THEN cch
    ELSE LET p == get_cache_path(dsk, filepath, IF k = 0 THEN TimeCol ELSE channels[k])
         IN  IF io.at = k
             THEN IF io.left THEN CachePut(cch, p, TruncatedFile) ELSE cch
             ELSE WriteColumns(
                      CachePut(cch, p, SavedFile(ColumnArray(dsk[filepath].rows, k + 1))),
                      dsk, filepath, channels, k + 1, io)

Metadata(total_rows, channels, time_range) ==
    [total_rows |-> total_rows, channels |-> channels, time_range |-> time_range]

NoMetadata == Metadata(0, <<>>, <<0, 0>>)

\* parse_and_cache, src/data.py:268-322
parse_and_cache(dsk, cch, filepath, io) ==
    LET file_rows == dsk[filepath].rows
        headers == HeaderLine(file_rows)
        channels == Tail(headers)
        time_array == ColumnArray(file_rows, 1)
    IN  IF ~ParsedFiles[file_rows].valid
        THEN [status |-> "format_error", cache |-> cch, metadata |-> NoMetadata]
        ELSE IF ParsedFiles[file_rows].raises
        THEN [status |-> "error", cache |-> cch, metadata |-> NoMetadata]
        ELSE IF time_array = <<>>
        \* one empty chunk: the time file is saved, then time_array[0] raises
        THEN [status |-> "error", metadata |-> NoMetadata,
              cache |-> WriteColumns(cch, dsk, filepath, channels, 0,
                                     IF io.at = 0 THEN io ELSE [at |-> 1, left |-> FALSE])]
        ELSE IF io.at # NoFailure
        THEN [status |-> "error", metadata |-> NoMetadata,
              cache |-> WriteColumns(cch, dsk, filepath, channels, 0, io)]
        ELSE [status |-> "ok",
              cache |-> WriteColumns(cch, dsk, filepath, channels, 0, io),
              metadata |-> Metadata(Len(time_array), channels,
                                    <<time_array[1], time_array[Len(time_array)]>>)]

\* load_metadata, src/data.py:324-334: np.load raises on a truncated file
load_metadata(dsk, cch, filepath) ==
    LET f == cch[get_time_cache_path(dsk, filepath)]
    IN  IF ~f.complete \/ f.data = <<>>
        THEN [status |-> "error", cache |-> cch, metadata |-> NoMetadata]
        ELSE [status |-> "ok", cache |-> cch,
              metadata |-> Metadata(Len(f.data),
                                    [i \in 1..16 |-> ChannelId(i)],
                                    <<f.data[1], f.data[Len(f.data)]>>)]

----------------------------------------------------------------------------
(* Slice queries of the two backends *)

\* an absent dataset_id (None) and an absent end_idx (None)
NoId == 0
NoEnd == 0 - 1

Series(x, y) == [x |-> x, y |-> y]
EmptySeries == Series(<<>>, <<>>)

Returned(s) == [raised |-> FALSE, data |-> s]
Raised == [raised |-> TRUE, data |-> EmptySeries]

\* np.load of a cache file succeeds
Loadable(cch, p) == CacheExists(cch, p) /\ cch[p].complete

\* MultiChannelLargeFileHandler.get_channel_data, src/data.py:336-380
\* (os.path.getmtime of a missing source file raises as well)
handler_get_channel_data(dsk, cch, filepath, channel_id, start_idx, end_idx, target_points) ==
    LET tp == get_time_cache_path(dsk, filepath)
        cp == get_cache_path(dsk, filepath, channel_id)
        time_array == cch[tp].data
        value_array == cch[cp].data
        e == IF end_idx = NoEnd THEN Len(time_array) ELSE end_idx
        time_slice == Slice(time_array, start_idx, e)
        value_slice == Slice(value_array, start_idx, e)
    IN  IF ~dsk[filepath].exists THEN Raised
        ELSE IF ~Loadable(cch, tp) \/ ~Loadable(cch, cp) THEN Raised
        ELSE IF LttbRaises(time_slice, target_points) THEN Raised
        ELSE IF Len(time_slice) > target_points
             THEN Returned(lttb_downsample(time_slice, value_slice, target_points))
             ELSE Returned(Series(time_slice, value_slice))

\* np.searchsorted(arr, key, side): the binary search numpy runs
RECURSIVE BinSearch(_, _, _, _, _)
BinSearch(arr, key, side, lo, hi) ==
    IF lo >= hi THEN lo
    ELSE LET mid == lo + ((hi - lo) \div 2)
             goRight == IF side = "left" THEN arr[mid + 1] < key ELSE arr[mid + 1] <= key
         IN  IF goRight THEN BinSearch(arr, key, side, mid + 1, hi)
             ELSE BinSearch(arr, key, side, lo, mid)

searchsorted(arr, key, side) == BinSearch(arr, key, side, 0, Len(arr))

\* MultiChannelLargeFileHandler.get_channel_data_by_time, src/data.py:382-398
handler_get_channel_data_by_time(dsk, cch, filepath, channel_id, start_time, end_time, target_points) ==
    LET tp == get_time_cache_path(dsk, filepath)
        time_array == cch[tp].data
    IN  IF ~dsk[filepath].exists \/ ~Loadable(cch, tp) THEN Raised
        ELSE handler_get_channel_data(dsk, cch, filepath, channel_id,
                 searchsorted(time_array, start_time, "left"),
                 searchsorted(time_array, end_time, "right"), target_points)

\* _resolve_dataset, src/data.py:546-551: the id of the record returned, NoId for None
resolve_dataset(datasets, order, dataset_id) ==
    IF dataset_id # NoId /\ dataset_id \in DOMAIN datasets THEN dataset_id
    ELSE IF order # <<>> /\ order[Len(order)] \in DOMAIN datasets THEN order[Len(order)]
    ELSE NoId

\* get_active_dataset_id, src/data.py:553-556
get_active_dataset_id(order) == IF order # <<>> THEN order[Len(order)] ELSE NoId

\* lines 585-600 on one dataset record
small_channel_data(dataset, channel_id, start_idx, end_idx, target_points) ==
    IF ~HasKey(dataset.data, channel_id) THEN Returned(EmptySeries)
    ELSE LET x_data == F32Seq(dataset.data.val[channel_id].x)
             y_data == F32Seq(dataset.data.val[channel_id].y)
             e == IF end_idx = NoEnd \/ end_idx > Len(x_data) THEN Len(x_data) ELSE end_idx
             x_slice == Slice(x_data, start_idx, e)
             y_slice == Slice(y_data, start_idx, e)
         IN  IF Len(x_slice) > target_points
             THEN Returned(lttb_downsample(x_slice, y_slice, target_points))
             ELSE Returned(Series(x_slice, y_slice))

\* the slice of one dataset record, lines 579-600
dataset_channel_data(dsk, cch, dataset, channel_id, start_idx, end_idx, target_points) ==
    IF dataset.is_large_file /\ dataset.large_file_handler # ""
    THEN handler_get_channel_data(dsk, cch, dataset.large_file_handler,
                                  channel_id, start_idx, end_idx, target_points)
    ELSE small_channel_data(dataset, channel_id, start_idx, end_idx, target_points)

\* get_multi_channel_channel_data, src/data.py:567-600
get_multi_channel_channel_data(dsk, cch, datasets, order, dataset_id, channel_id, start_idx, end_idx, target_points) ==
    LET rid == resolve_dataset(datasets, order, dataset_id)
    IN  IF rid = NoId THEN Returned(EmptySeries)
        ELSE dataset_channel_data(dsk, cch, datasets[rid], channel_id,
                                  start_idx, end_idx, target_points)

\* lines 624-639 on one dataset record
small_channel_data_by_time(dataset, channel_id, start_time, end_time, target_points) ==
    IF ~HasKey(dataset.data, channel_id) THEN Returned(EmptySeries)
    ELSE LET x_data == dataset.data.val[channel_id].x
             y_data == dataset.data.val[channel_id].y
             keep == SelectSeq([i \in 1..Len(x_data) |-> i],
                               LAMBDA i : start_time <= x_data[i] /\ x_data[i] <= end_time)
             filtered_x == [k \in 1..Len(keep) |-> x_data[keep[k]]]
             filtered_y == [k \in 1..Len(keep) |-> y_data[keep[k]]]
         IN  IF Len(filtered_x) > target_points
             THEN Returned(lttb_downsample(F32Seq(filtered_x), F32Seq(filtered_y),
                                           target_points))
             ELSE Returned(Series(filtered_x, filtered_y))

dataset_channel_data_by_time(dsk, cch, dataset, channel_id, start_time, end_time, target_points) ==
    IF dataset.is_large_file /\ dataset.large_file_handler # ""
    THEN handler_get_channel_data_by_time(dsk, cch, dataset.large_file_handler,
                                          channel_id, start_time, end_time, target_points)
    ELSE small_channel_data_by_time(dataset, channel_id, start_time, end_time, target_points)

\* get_multi_channel_channel_data_by_time, src/data.py:602-639
get_multi_channel_channel_data_by_time(dsk, cch, datasets, order, dataset_id, channel_id, start_time, end_time, target_points) ==
    LET rid == resolve_dataset(datasets, order, dataset_id)
    IN  IF rid = NoId THEN Returned(EmptySeries)
        ELSE dataset_channel_data_by_time(dsk, cch, datasets[rid], channel_id,
                                          start_time, end_time, target_points)

\* get_channel_data_downsampled, src/data.py:699-721; is_large_file of the
\* manager is never set, so only the branch of lines 719-721 runs
get_channel_data_downsampled(flat, channel_id) ==
    IF HasKey(flat, channel_id) THEN Returned(flat.val[channel_id])
    ELSE Returned(EmptySeries)

\* get_channel_data_by_time_range, src/data.py:723-756, lines 743-756
get_channel_data_by_time_range(flat, channel_id, start_time, end_time) ==
    IF ~HasKey(flat, channel_id) THEN Returned(EmptySeries)
    ELSE LET x_data == flat.val[channel_id].x
             y_data == flat.val[channel_id].y
             keep == SelectSeq([i \in 1..Len(x_data) |-> i],
                               LAMBDA i : start_time <= x_data[i] /\ x_data[i] <= end_time)
         IN  Returned(Series([k \in 1..Len(keep) |-> x_data[keep[k]]],
                             [k \in 1..Len(keep) |-> y_data[keep[k]]]))

\* _build_small_dataset_metadata, src/data.py:456-469
build_small_dataset_metadata(series) ==
    IF series.keys # <<>> /\ series.val[series.keys[1]].x # <<>>
    THEN LET x_data == series.val[series.keys[1]].x
         IN  Metadata(Len(x_data), series.keys, <<x_data[1], x_data[Len(x_data)]>>)
    ELSE Metadata(0, series.keys, <<0, 0>>)

MetadataReply(md, is_large) ==
    [total_rows |-> md.total_rows, channels |-> md.channels,
     time_range |-> md.time_range, is_large_file |-> is_large]

\* get_metadata, src/data.py:758-791
get_metadata(mode, flat, datasets, order, dataset_id) ==
    IF mode
    THEN LET rid == resolve_dataset(datasets, order, dataset_id)
         IN  IF rid = NoId THEN MetadataReply(NoMetadata, FALSE)
             ELSE MetadataReply(Metadata(datasets[rid].metadata.total_rows,
                                         datasets[rid].channels,
                                         datasets[rid].metadata.time_range),
                                datasets[rid].is_large_file)
    ELSE MetadataReply(build_small_dataset_metadata(flat), FALSE)

\* get_channel_list, src/data.py:825-834
get_channel_list(mode, flat, datasets, order, dataset_id) ==
    IF mode
    THEN LET rid == resolve_dataset(datasets, order, dataset_id)
         IN  IF rid = NoId THEN <<>> ELSE datasets[rid].channels
    ELSE flat.keys

\* get_multi_channel_datasets, src/data.py:527-544
get_multi_channel_datasets(datasets, order) ==
    LET present == SelectSeq(order, LAMBDA id : id \in DOMAIN datasets)
    IN  [k \in 1..Len(present) |->
            [id |-> present[k],
             name |-> datasets[present[k]].name,
             filename |-> datasets[present[k]].filename,
             is_large_file |-> datasets[present[k]].is_large_file,
             total_rows |-> datasets[present[k]].metadata.total_rows,
             time_range |-> datasets[present[k]].metadata.time_range,
             channels |-> datasets[present[k]].channels]]

----------------------------------------------------------------------------
(* MultiSeriesData.add_file and add_multi_channel_file on the registry      *)
(* fields reg = [data, file_list, channel_names, datasets, order, next_id]  *)

AppendIfAbsent(s, e) == IF InSeq(s, e) THEN s ELSE Append(s, e)

\* lines 444-446: a display name for every new series that has none
RECURSIVE DefaultNames(_, _, _)
DefaultNames(names, keys, i) ==
    IF i > Len(keys) THEN names
    ELSE DefaultNames(
             IF keys[i] \in DOMAIN names THEN names
             ELSE [q \in DOMAIN names \cup {keys[i]} |->
                      IF q = keys[i] THEN keys[i] ELSE names[q]],
             keys, i + 1)

Dataset(id, filepath, is_large, metadata, series) ==
    [id |-> id, name |-> Stem(filepath), filename |-> filepath, filepath |-> filepath,
     is_large_file |-> is_large, metadata |-> metadata, channels |-> metadata.channels,
     data |-> series, large_file_handler |-> IF is_large THEN filepath ELSE ""]

Outcome(status, reg, cch, id) == [status |-> status, reg |-> reg, cache |-> cch, id |-> id]

\* lines 510-514 without line 512: the record is stored, the order left as it is
RegisteredUnordered(reg, dataset, filepath) ==
    [reg EXCEPT !.datasets = [q \in DOMAIN reg.datasets \cup {dataset.id} |->
                                 IF q = dataset.id THEN dataset ELSE reg.datasets[q]],
                !.file_list = AppendIfAbsent(reg.file_list, filepath),
                !.next_id = reg.next_id + 1]

\* lines 510-514: the record is stored, the id appended to the order
Registered(reg, dataset, filepath) ==
    [reg EXCEPT !.datasets = [q \in DOMAIN reg.datasets \cup {dataset.id} |->
                                 IF q = dataset.id THEN dataset ELSE reg.datasets[q]],
                !.order = Append(reg.order, dataset.id),
                !.file_list = AppendIfAbsent(reg.file_list, filepath),
                !.next_id = reg.next_id + 1]

\* add_multi_channel_file, src/data.py:471-525; uuid4 gives an id never used
add_multi_channel_file(dsk, cch, reg, filepath, io) ==
    LET dataset_id == reg.next_id
        file_size == dsk[filepath].size
    IN  IF file_size > LARGE_FILE_THRESHOLD
        THEN LET got == IF is_cached(dsk, cch, filepath)
                        THEN load_metadata(dsk, cch, filepath)
                        ELSE parse_and_cache(dsk, cch, filepath, io)
             IN  IF got.status # "ok" THEN Outcome(got.status, reg, got.cache, NoId)
                 ELSE Outcome("ok",
                          Registered(reg, Dataset(dataset_id, filepath, TRUE,
                                                  got.metadata, EmptyDict), filepath),
                          got.cache, dataset_id)
        ELSE LET got == LoadFile(dsk[filepath].rows, Stem(filepath), TRUE)
             IN  IF got.status # "ok" THEN Outcome(got.status, reg, cch, NoId)
                 ELSE Outcome("ok",
                          Registered(reg, Dataset(dataset_id, filepath, FALSE,
                                         build_small_dataset_metadata(got.data),
                                         got.data), filepath),
                          cch, dataset_id)

\* add_file, src/data.py:428-454.  status: "ok" (a truthy result),
\* "format_error" (MultiChannelFormatError raised again), "error" (False)
add_file(dsk, cch, reg, filepath, multi_mode, io) ==
    IF multi_mode THEN add_multi_channel_file(dsk, cch, reg, filepath, io)
    ELSE LET got == LoadFile(dsk[filepath].rows, Stem(filepath), FALSE)
         IN  IF got.status # "ok" THEN Outcome("error", reg, cch, NoId)
             ELSE IF got.data.keys = <<>> THEN Outcome("ok", reg, cch, NoId)
             ELSE Outcome("ok",
                      [reg EXCEPT !.data = DictUpdate(reg.data, got.data),
                                  !.file_list = AppendIfAbsent(reg.file_list, filepath),
                                  !.channel_names = DefaultNames(reg.channel_names,
                                                                 got.data.keys, 1)],
                      cch, NoId)

----------------------------------------------------------------------------
(* AlignmentService, src/main.py:57-202 *)

\* lines 67-68: s - np.mean(s), kept as the integers Len(s) * (s - mean); the
\* positive factor moves no maximum of the correlation
MeanSubtracted(s) == [i \in 1..Len(s) |-> Len(s) * s[i] - SumSeq(s)]

\* signal.correlate(a, v, mode='full')[k], k = 0 .. len(a) + len(v) - 2:
\* the sum of a[j] * v[j - (k - (len(v) - 1))] over the j where both exist
Correlate(a, v, k) ==
    LET d == k - (Len(v) - 1)
    IN  SumSeq([j \in 1..Len(a) |->
                   IF 1 <= j - d /\ j - d <= Len(v) THEN a[j] * v[j - d] ELSE 0])

\* np.argmax: the first index (0-based) of the largest element
ArgMax(c) ==
    (CHOOSE i \in 1..Len(c) :
        /\ \A j \in 1..Len(c) : c[j] <= c[i]
        /\ \A j \in 1..(i - 1) : c[j] < c[i]) - 1

\* line 77 with the template's length in place of the target's
LagFromTemplateLength(template, target) ==
    LET a == MeanSubtracted(template)
        v == MeanSubtracted(target)
        correlation == [k \in 1..(Len(a) + Len(v) - 1) |-> Correlate(a, v, k - 1)]
    IN  ArgMax(correlation) - (Len(template) - 1)

\* cross_correlate_lag, src/main.py:60-79, on two signals that are not empty
cross_correlate_lag(template, target) ==
    LET a == MeanSubtracted(template)
        v == MeanSubtracted(target)
        correlation == [k \in 1..(Len(a) + Len(v) - 1) |-> Correlate(a, v, k - 1)]
    IN  ArgMax(correlation) - (Len(target) - 1)

\* np.argmax of line 74 raises ValueError on an empty correlation
LagRaises(template, target) == template = <<>> \/ target = <<>>

\* a cut range that is absent (None)
NoRange == <<>>

\* cut_ranges absent, or no entry for a series (cut_ranges.get gives None)
NoCuts == <<>>
CutOf(cuts, name) == IF name \in DOMAIN cuts THEN cuts[name] ELSE NoRange

\* get_signal_segment, src/main.py:81-95, for cut ranges with start, end >= 0
get_signal_segment(series_data, cut_range) ==
    LET y_data == F32Seq(series_data.y)
    IN  IF cut_range # NoRange /\ Len(cut_range) = 2
        THEN Slice(y_data, Max(0, cut_range[1]), Min(Len(y_data), cut_range[2]))
        ELSE y_data

\* dict.update / item assignment on the offsets dict
Merge(f, g) == [k \in DOMAIN f \cup DOMAIN g |-> IF k \in DOMAIN g THEN g[k] ELSE f[k]]

\* the loop of lines 124-134 over group_series[1:]
RECURSIVE AlignRest(_, _, _, _, _)
AlignRest(rest, template_signal, all_data, cuts, offsets) ==
    IF rest = <<>> THEN offsets
    ELSE LET series_name == Head(rest)
             lag == IF series_name \notin DOMAIN all_data THEN 0
                    ELSE cross_correlate_lag(template_signal,
                             get_signal_segment(all_data[series_name],
                                                CutOf(cuts, series_name)))
         IN  AlignRest(Tail(rest), template_signal, all_data, cuts,
                       Merge(offsets, [k \in {series_name} |-> lag]))

\* align_group, src/main.py:97-136
align_group(group_series, all_data, cuts) ==
    IF group_series = <<>> THEN <<>>
    ELSE LET template_name == group_series[1]
         IN  IF template_name \notin DOMAIN all_data THEN <<>>
             ELSE AlignRest(Tail(group_series),
                            get_signal_segment(all_data[template_name],
                                               CutOf(cuts, template_name)),
                            all_data, cuts, [k \in {template_name} |-> 0])

\* Step A, lines 155-164: groups is the sequence of the dict's items
RECURSIVE StepA(_, _, _, _)
StepA(groups, all_data, cuts, final_offsets) ==
    IF groups = <<>> THEN final_offsets
    ELSE IF Head(groups).series = <<>>
    THEN StepA(Tail(groups), all_data, cuts, final_offsets)
    ELSE StepA(Tail(groups), all_data, cuts,
               Merge(final_offsets, align_group(Head(groups).series, all_data, cuts)))

\* lines 197-199: for series_name in series_list
RECURSIVE AddLag(_, _, _)
AddLag(series_list, inter_group_lag, final_offsets) ==
    IF series_list = <<>> THEN final_offsets
    ELSE LET series_name == Head(series_list)
         IN  IF series_name \in DOMAIN final_offsets
             THEN AddLag(Tail(series_list), inter_group_lag,
                      [final_offsets EXCEPT ![series_name] = @ + inter_group_lag])
             ELSE AddLag(Tail(series_list), inter_group_lag, final_offsets)

\* Step B, lines 178-200
RECURSIVE StepB(_, _, _, _, _, _)
StepB(groups, all_data, cuts, reference_group, reference_signal, final_offsets) ==
    IF groups = <<>> THEN final_offsets
    ELSE LET g == Head(groups)
             skip == \/ g.name = reference_group
                     \/ g.series = <<>>
                     \/ g.series[1] \notin DOMAIN all_data
         IN  IF skip
             THEN StepB(Tail(groups), all_data, cuts, reference_group,
                        reference_signal, final_offsets)
             ELSE StepB(Tail(groups), all_data, cuts, reference_group, reference_signal,
                        AddLag(g.series,
                               cross_correlate_lag(reference_signal,
                                   get_signal_segment(all_data[g.series[1]],
                                                      CutOf(cuts, g.series[1]))),
                               final_offsets))

\* the group of that name which has a template (a non-empty list), or <<>>
TemplateOf(groups, name) ==
    LET named == SelectSeq(groups, LAMBDA g : g.name = name /\ g.series # <<>>)
    IN  IF named = <<>> THEN <<>> ELSE <<named[1].series[1]>>

\* hierarchical_align, src/main.py:138-202
hierarchical_align(groups, all_data, cuts, reference_group) ==
    LET intra == StepA(groups, all_data, cuts, <<>>)
        reference_template == TemplateOf(groups, reference_group)
    IN  IF reference_template = <<>> THEN intra
        ELSE IF reference_template[1] \notin DOMAIN all_data THEN intra
        ELSE StepB(groups, all_data, cuts, reference_group,
                   get_signal_segment(all_data[reference_template[1]],
                                      CutOf(cuts, reference_template[1])),
                   intra)

----------------------------------------------------------------------------
(* Inputs of the requests *)

Failures ==
    { [at |-> NoFailure, left |-> FALSE],
      [at |-> 1, left |-> TRUE],
      [at |-> 16, left |-> FALSE] }

\* query parameters
UnknownId == 0 - 1
QueryIds == {NoId, 1, UnknownId}
QueryChannels == {ChannelId(1), <<T("nope")>>}
QueryTargets == {3}
IndexRanges == {<<0, NoEnd>>}
TimeWindows == {<<1, 2>>}
RenameIds == {1, UnknownId}
SideIds == {ChannelId(1)}

----------------------------------------------------------------------------
(* State *)

VARIABLES
    lttb,                   \* SpecLttb: one call of lttb_downsample
    align,                  \* one call of the AlignmentService
    parse,                  \* SpecParse: one file parsed with and without a header
    disk,                   \* UPLOAD_DIR: filename -> file
    cache,                  \* CACHE_DIR: cache path -> file
    clock,                  \* the last mtime stamped
    next_id,                \* the next dataset id uuid4 returns
    data,                   \* MultiSeriesData.data, the legacy flat map
    file_list,
    multi_channel_mode,
    channel_names,
    channel_offsets,
    channel_cut_ranges,
    multi_channel_datasets,
    multi_channel_order,
    resp,                   \* the response of the last request
    threads                 \* SpecThreads: the handler running on the event loop
                            \* and the one running in the thread pool

regvars == <<data, file_list, channel_names, multi_channel_datasets,
             multi_channel_order, next_id>>
sidevars == <<channel_offsets, channel_cut_ranges>>
sysvars == <<disk, cache, clock, multi_channel_mode, regvars, sidevars, resp, threads>>
vars == <<lttb, align, parse, sysvars>>

Reg == [data |-> data, file_list |-> file_list, channel_names |-> channel_names,
        datasets |-> multi_channel_datasets, order |-> multi_channel_order,
        next_id |-> next_id]

NoResp == [kind |-> "none"]

\* no call of the function under study is in progress
NoCall == [pc |-> "idle"]

\* no handler is in progress
NoThreads == [writer |-> [pc |-> "idle"], reader |-> [pc |-> "idle"]]

\* MultiSeriesData([]) of src/main.py:240-241 with no bundled CSV files
InitSys ==
    /\ threads = NoThreads
    /\ disk = [f \in FileNames |-> NoFile]
    /\ cache = <<>>
    /\ clock = 0
    /\ next_id = 1
    /\ data = EmptyDict
    /\ file_list = <<>>
    /\ multi_channel_mode = FALSE
    /\ channel_names = <<>>
    /\ channel_offsets = <<>>
    /\ channel_cut_ranges = <<>>
    /\ multi_channel_datasets = <<>>
    /\ multi_channel_order = <<>>
    /\ resp = NoResp

----------------------------------------------------------------------------
(* The request handlers of src/main.py, each one action *)

Put(f, k, v) == [q \in DOMAIN f \cup {k} |-> IF q = k THEN v ELSE f[q]]

SetReg(r) ==
    /\ data' = r.data
    /\ file_list' = r.file_list
    /\ channel_names' = r.channel_names
    /\ multi_channel_datasets' = r.datasets
    /\ multi_channel_order' = r.order
    /\ next_id' = r.next_id

\* upload_csv, src/main.py:250-316, for an upload within MAX_UPLOAD_SIZE whose
\* file gets the modification time mt: the file is written, the mode flag is
\* set, then add_file runs
Uploaded(u, mode, io, mt) ==
    /\ u.size <= MAX_UPLOAD_SIZE
    /\ io.at # NoFailure =>
           (mode /\ u.size > LARGE_FILE_THRESHOLD /\ u.rows = GoodRows)
    /\ LET dsk == [disk EXCEPT ![u.filename] =
                      [exists |-> TRUE, rows |-> u.rows, size |-> u.size,
                       mtime |-> mt]]
           out == add_file(dsk, cache, Reg, u.filename, mode, io)
       IN  /\ disk' = dsk
           /\ clock' = clock + 1
           /\ multi_channel_mode' = mode
           /\ cache' = out.cache
           /\ SetReg(out.reg)
           /\ resp' = [kind |-> "upload", mode |-> mode,
                       error |-> out.status # "ok",
                       format_error |-> out.status = "format_error",
                       dataset_id |-> out.id]
    /\ UNCHANGED <<lttb, align, parse, threads, sidevars>>

\* an upload that is written at a later time than every file before it
PostUpload ==
    \E u \in Uploads, mode \in BOOLEAN, io \in Failures :
        /\ clock < MaxUploads
        /\ Uploaded(u, mode, io, clock + 1)

\* upload_csv, lines 273-276: more than MAX_UPLOAD_SIZE bytes arrive; the
\* file opened for writing is closed and unlinked
PostUploadTooLarge ==
    \E u \in Uploads :
        /\ u.size > MAX_UPLOAD_SIZE
        /\ disk' = [disk EXCEPT ![u.filename] = NoFile]
        /\ resp' = [kind |-> "upload", mode |-> multi_channel_mode, error |-> TRUE,
                    format_error |-> FALSE, dataset_id |-> NoId]
        /\ UNCHANGED <<lttb, align, parse, threads, cache, clock, multi_channel_mode, regvars, sidevars>>

\* a clear that forgets to reset the display names
PostClearNamesKept ==
    /\ data' = EmptyDict
    /\ file_list' = <<>>
    /\ channel_offsets' = <<>>
    /\ channel_cut_ranges' = <<>>
    /\ multi_channel_datasets' = <<>>
    /\ multi_channel_order' = <<>>
    /\ disk' = [f \in FileNames |-> NoFile]
    /\ resp' = [kind |-> "clear",
                deleted_files |-> {f \in FileNames : disk[f].exists}]
    /\ UNCHANGED <<lttb, align, parse, threads, cache, clock, next_id, multi_channel_mode, channel_names>>

\* clear_all_data, src/main.py:319-339, with clear_data, src/data.py:836-849
PostClear ==
    /\ data' = EmptyDict
    /\ file_list' = <<>>
    /\ channel_names' = <<>>
    /\ channel_offsets' = <<>>
    /\ channel_cut_ranges' = <<>>
    /\ multi_channel_datasets' = <<>>
    /\ multi_channel_order' = <<>>
    /\ disk' = [f \in FileNames |-> NoFile]
    /\ resp' = [kind |-> "clear",
                deleted_files |-> {f \in FileNames : disk[f].exists}]
    /\ UNCHANGED <<lttb, align, parse, threads, cache, clock, next_id, multi_channel_mode>>

\* update_dataset_name, src/main.py:456-462 and src/data.py:641-646
PostDatasetName ==
    \E id \in RenameIds :
        /\ IF id \in DOMAIN multi_channel_datasets
           THEN /\ multi_channel_datasets' =
                       [multi_channel_datasets EXCEPT ![id].name = "renamed"]
                /\ resp' = [kind |-> "dataset-name", error |-> FALSE]
           ELSE /\ UNCHANGED multi_channel_datasets
                /\ resp' = [kind |-> "dataset-name", error |-> TRUE]
        /\ UNCHANGED <<lttb, align, parse, threads, disk, cache, clock, multi_channel_mode, data, file_list,
                       channel_names, multi_channel_order, next_id, sidevars>>

\* update_channel_names, src/main.py:525-530
PostChannelNames ==
    \E c \in SideIds :
        /\ channel_names' = Put(channel_names, c, <<T("signal")>>)
        /\ resp' = [kind |-> "channel-names"]
        /\ UNCHANGED <<lttb, align, parse, threads, disk, cache, clock, multi_channel_mode, data, file_list,
                       multi_channel_datasets, multi_channel_order, next_id, sidevars>>

\* set_channel_offset, src/main.py:539-543
PostChannelOffset ==
    \E c \in SideIds :
        /\ channel_offsets' = Put(channel_offsets, c, 7)
        /\ resp' = [kind |-> "channel-offset"]
        /\ UNCHANGED <<lttb, align, parse, threads, disk, cache, clock, multi_channel_mode, regvars,
                       channel_cut_ranges>>

\* set_channel_cut_range, src/main.py:552-556
PostChannelCutRange ==
    \E c \in SideIds :
        /\ channel_cut_ranges' = Put(channel_cut_ranges, c, <<0, 2>>)
        /\ resp' = [kind |-> "channel-cut-range"]
        /\ UNCHANGED <<lttb, align, parse, threads, disk, cache, clock, multi_channel_mode, regvars,
                       channel_offsets>>

\* the reply of get_channel_data, src/main.py:354-387
ChannelDataReply(dsk, cch, mode, flat, datasets, order, dataset_id, channel_id, start_idx, end_idx, target_points) ==
    LET got == IF mode
               THEN get_multi_channel_channel_data(dsk, cch, datasets, order, dataset_id,
                        channel_id, start_idx, end_idx, target_points)
               ELSE get_channel_data_downsampled(flat, channel_id)
    IN  [error |-> got.raised, data |-> got.data,
         dataset_id |-> IF got.raised THEN NoId
                        ELSE IF dataset_id # NoId THEN dataset_id
                        ELSE get_active_dataset_id(order)]

\* the reply of get_channel_data_by_time, src/main.py:390-423
ChannelDataByTimeReply(dsk, cch, mode, flat, datasets, order, dataset_id, channel_id, start_time, end_time, target_points) ==
    LET got == IF mode
               THEN get_multi_channel_channel_data_by_time(dsk, cch, datasets, order,
                        dataset_id, channel_id, start_time, end_time, target_points)
               ELSE get_channel_data_by_time_range(flat, channel_id, start_time, end_time)
    IN  [error |-> got.raised, data |-> got.data,
         dataset_id |-> IF got.raised THEN NoId
                        ELSE IF dataset_id # NoId THEN dataset_id
                        ELSE get_active_dataset_id(order)]

\* the reply of get_channels, src/main.py:426-437
ChannelsReply(mode, flat, datasets, order, names) ==
    [channels |-> get_channel_list(mode, flat, datasets, order, NoId),
     channel_names |-> names,
     multi_channel_mode |-> mode,
     total_rows |-> get_metadata(mode, flat, datasets, order, NoId).total_rows,
     time_range |-> get_metadata(mode, flat, datasets, order, NoId).time_range]

GetChannelData ==
    \E id \in QueryIds, c \in QueryChannels, r \in IndexRanges, k \in QueryTargets :
        /\ resp' = [kind |-> "channel-data",
                    req |-> [dataset_id |-> id, channel_id |-> c, start_idx |-> r[1],
                             end_idx |-> r[2], target_points |-> k],
                    reply |-> ChannelDataReply(disk, cache, multi_channel_mode, data,
                                  multi_channel_datasets, multi_channel_order,
                                  id, c, r[1], r[2], k)]
        /\ UNCHANGED <<lttb, align, parse, threads, disk, cache, clock, multi_channel_mode, regvars, sidevars>>

GetChannelDataByTime ==
    \E id \in QueryIds, c \in QueryChannels, w \in TimeWindows, k \in QueryTargets :
        /\ resp' = [kind |-> "channel-data-by-time",
                    req |-> [dataset_id |-> id, channel_id |-> c, start_time |-> w[1],
                             end_time |-> w[2], target_points |-> k],
                    reply |-> ChannelDataByTimeReply(disk, cache, multi_channel_mode, data,
                                  multi_channel_datasets, multi_channel_order,
                                  id, c, w[1], w[2], k)]
        /\ UNCHANGED <<lttb, align, parse, threads, disk, cache, clock, multi_channel_mode, regvars, sidevars>>

\* get_metadata, src/main.py:348-351
GetMetadata ==
    \E id \in QueryIds :
        /\ resp' = [kind |-> "metadata", req |-> [dataset_id |-> id],
                    reply |-> get_metadata(multi_channel_mode, data,
                                  multi_channel_datasets, multi_channel_order, id)]
        /\ UNCHANGED <<lttb, align, parse, threads, disk, cache, clock, multi_channel_mode, regvars, sidevars>>

\* get_time_series, get_channels and get_multi_channel_datasets,
\* src/main.py:342-345, 426-437, 440-443
GetListings ==
    /\ resp' = [kind |-> "listings",
                data |-> data,
                channels |-> ChannelsReply(multi_channel_mode, data,
                                 multi_channel_datasets, multi_channel_order,
                                 channel_names),
                datasets |-> get_multi_channel_datasets(multi_channel_datasets,
                                                        multi_channel_order)]
    /\ UNCHANGED <<lttb, align, parse, threads, disk, cache, clock, multi_channel_mode, regvars, sidevars>>

NoLttb == [pc |-> "idle", x |-> <<>>, y |-> <<>>, target_points |-> 3,
           out |-> [x |-> <<>>, y |-> <<>>], idx |-> <<>>]

Init == InitSys /\ lttb = NoLttb /\ align = NoCall /\ parse = NoCall

Next ==
    \/ PostUpload
    \/ PostUploadTooLarge
    \/ PostClear
    \/ PostDatasetName
    \/ PostChannelNames
    \/ PostChannelOffset
    \/ PostChannelCutRange
    \/ GetChannelData
    \/ GetChannelDataByTime
    \/ GetMetadata
    \/ GetListings

Spec == Init /\ [][Next]_vars

----------------------------------------------------------------------------
(* SpecLttb: lttb_downsample applied to every bounded input *)

\* the samples of one of the two arrays are small integers, those of the
\* other small integers or Unrounded (the caller's arrays may be of any dtype;
\* the arithmetic of lines 85-100 is then float64, exact on these values)
LttbInputs ==
    UNION { ([1..n -> 0..MaxVal] \X [1..n -> (0..MaxVal) \cup {Unrounded}])
            \cup ([1..n -> (0..MaxVal) \cup {Unrounded}] \X [1..n -> 0..MaxVal]) :
            n \in 0..MaxLen }

InitLttb ==
    /\ InitSys
    /\ align = NoCall
    /\ parse = NoCall
    /\ \E xy \in LttbInputs : LET x == xy[1] y == xy[2] IN
       \E k \in 3..MaxK :
        lttb = [pc |-> "call", x |-> x, y |-> y, target_points |-> k,
                out |-> [x |-> <<>>, y |-> <<>>], idx |-> <<>>]

\* line 61-62: n <= target_points returns the input unchanged
LttbPass ==
    /\ lttb.pc = "call"
    /\ Len(lttb.x) <= lttb.target_points
    /\ lttb' = [lttb EXCEPT !.pc = "done",
                            !.out = lttb_downsample(lttb.x, lttb.y, lttb.target_points),
                            !.idx = LttbIndices(lttb.x, lttb.y, lttb.target_points)]
    /\ UNCHANGED <<align, parse, sysvars>>

\* lines 64-114: n > target_points
LttbSample ==
    /\ lttb.pc = "call"
    /\ Len(lttb.x) > lttb.target_points
    /\ lttb' = [lttb EXCEPT !.pc = "done",
                            !.out = lttb_downsample(lttb.x, lttb.y, lttb.target_points),
                            !.idx = LttbIndices(lttb.x, lttb.y, lttb.target_points)]
    /\ UNCHANGED <<align, parse, sysvars>>

NextLttb == LttbPass \/ LttbSample

SpecLttb == InitLttb /\ [][NextLttb]_vars

NonDecreasing(s) == \A i \in 1..(Len(s) - 1) : s[i] <= s[i + 1]

\* the call of SpecLttb has returned and was a downsampling call (n > K >= 3)
LttbSampled ==
    /\ lttb.pc = "done"
    /\ Len(lttb.x) > lttb.target_points
    /\ lttb.target_points >= 3

----------------------------------------------------------------------------
(* SpecParse: load_data on a numeric CSV file, as it is and under a header *)

NumericCells == {<<N(0)>>, <<N(1)>>}
HeaderCells == {<<T("v")>>, <<T("w")>>, <<T("time")>>}

\* the rows of a CSV file all of whose cells are numbers
NumericFiles ==
    UNION {[1..r -> UNION {[1..c -> NumericCells] : c \in 1..MaxCols}] : r \in 0..MaxRows}

\* header rows none of whose cells is a number
HeaderRows == UNION {[1..c -> HeaderCells] : c \in 1..MaxCols}

InitParse ==
    /\ InitSys
    /\ lttb = NoLttb
    /\ align = NoCall
    /\ \E rows \in NumericFiles, header \in HeaderRows, mode \in BOOLEAN :
           parse = [pc |-> "call", rows |-> rows, header |-> header, mode |-> mode,
                    plain |-> Loaded(EmptyDict), headed |-> Loaded(EmptyDict)]

\* TimeSeriesData(filename, "a", mode).get_data() on the file and on the file
\* with the header row in front
LoadBoth ==
    /\ parse.pc = "call"
    /\ parse' = [parse EXCEPT !.pc = "done",
                              !.plain = load_data(parse.rows, "a", parse.mode),
                              !.headed = load_data(<<parse.header>> \o parse.rows,
                                                   "a", parse.mode)]
    /\ UNCHANGED <<lttb, align, sysvars>>

NextParse == LoadBoth

SpecParse == InitParse /\ [][NextParse]_vars

----------------------------------------------------------------------------
(* SpecLag: cross_correlate_lag applied to every bounded pair of signals *)

Signals(lo, hi) == UNION {[1..n -> (0 - MaxAmp)..MaxAmp] : n \in lo..hi}

\* s moved k samples toward larger indices, zeros filling the front
Delayed(s, k) == [i \in 1..k |-> 0] \o s

NonConstant(s) == \E i \in 1..Len(s) : s[i] # s[1]

InitLag ==
    /\ InitSys
    /\ lttb = NoLttb
    /\ parse = NoCall
    /\ \E template \in Signals(1, MaxSig), target \in Signals(1, MaxSig + MaxShift) :
           align = [pc |-> "call", template |-> template, target |-> target, lag |-> 0]

CrossCorrelateLag ==
    /\ align.pc = "call"
    /\ align' = [align EXCEPT !.pc = "done",
                              !.lag = cross_correlate_lag(align.template, align.target)]
    /\ UNCHANGED <<lttb, parse, sysvars>>

NextLag == CrossCorrelateLag

SpecLag == InitLag /\ [][NextLag]_vars

----------------------------------------------------------------------------
(* SpecHier: hierarchical_align applied to every bounded groups mapping *)

\* all_data: a pulse, the pulse one and two samples later, a constant signal;
\* the series "X" is not loaded
AllData ==
    [k \in {"A", "B", "C", "K"} |->
        Series(<<0, 1, 2, 3>>,
               CASE k = "A" -> <<1, 0, 0, 0>>
                 [] k = "B" -> <<0, 1, 0, 0>>
                 [] k = "C" -> <<0, 0, 1, 0>>
                 [] OTHER -> <<1, 1, 1, 1>>)]

SeriesIds == DOMAIN AllData \cup {"X"}
GroupNames == {"Normal", "Abn"}
SeriesLists == UNION {[1..n -> SeriesIds] : n \in 0..MaxGroup}
Group(name, series_list) == [name |-> name, series |-> series_list]

\* the items of request.groups: no group, one group, or both in either order
GroupMappings ==
    {<<>>}
    \cup {<<Group(n, l)>> : n \in GroupNames, l \in SeriesLists}
    \cup {<<Group(pair[1], lists[1]), Group(pair[2], lists[2])>> :
              pair \in {q \in GroupNames \X GroupNames : q[1] # q[2]},
              lists \in SeriesLists \X SeriesLists}

CutMaps == {NoCuts, [k \in {"B"} |-> <<1, 4>>]}

InitHier ==
    /\ InitSys
    /\ lttb = NoLttb
    /\ parse = NoCall
    /\ \E groups \in GroupMappings, cuts \in CutMaps, reference_group \in GroupNames :
           align = [pc |-> "call", groups |-> groups, cut_ranges |-> cuts,
                    reference_group |-> reference_group, offsets |-> <<>>]

HierarchicalAlign ==
    /\ align.pc = "call"
    /\ align' = [align EXCEPT !.pc = "done",
                              !.offsets = hierarchical_align(align.groups, AllData,
                                              align.cut_ranges, align.reference_group)]
    /\ UNCHANGED <<lttb, parse, sysvars>>

NextHier == HierarchicalAlign

SpecHier == InitHier /\ [][NextHier]_vars

----------------------------------------------------------------------------
(* Dataset alignment: POST /multi-channel/align-datasets, src/main.py:465-522 *)

DEFAULT_DOWNSAMPLE_POINTS == 5000

\* target_points absent (or 0)
NoTarget == 0

\* what get_alignment_series gives: None, a pair of arrays, or an exception
NoSeries == [kind |-> "none", data |-> EmptySeries]
Fetched(r) == [kind |-> IF r.raised THEN "raised" ELSE "series", data |-> r.data]

\* get_alignment_series, src/data.py:648-697; cut is NoRange or <<start, end>>
get_alignment_series(dsk, cch, datasets, dataset_id, channel_id, cut, target_points) ==
    IF dataset_id \notin DOMAIN datasets THEN NoSeries
    ELSE LET dataset == datasets[dataset_id]
         IN  IF dataset.is_large_file /\ dataset.large_file_handler # ""
             THEN IF cut # NoRange
                  THEN Fetched(handler_get_channel_data_by_time(dsk, cch,
                                   dataset.large_file_handler, channel_id,
                                   cut[1], cut[2], target_points))
                  ELSE Fetched(handler_get_channel_data(dsk, cch,
                                   dataset.large_file_handler, channel_id,
                                   0, NoEnd, target_points))
             ELSE IF ~HasKey(dataset.data, channel_id) THEN NoSeries
             ELSE LET x == F32Seq(dataset.data.val[channel_id].x)
                      y == F32Seq(dataset.data.val[channel_id].y)
                      start_idx == IF cut = NoRange THEN 0
                                   ELSE searchsorted(x, cut[1], "left")
                      end_idx == IF cut = NoRange THEN Len(x)
                                 ELSE searchsorted(x, cut[2], "right")
                      xs == Slice(x, start_idx, end_idx)
                      ys == Slice(y, start_idx, end_idx)
                  IN  IF x = <<>> THEN NoSeries
                      ELSE IF LttbRaises(xs, target_points) THEN Fetched(Raised)
                      ELSE IF Len(xs) > target_points
                      THEN Fetched(Returned(lttb_downsample(xs, ys, target_points)))
                      ELSE Fetched(Returned(Series(xs, ys)))

\* np.diff
Diff(x) == [i \in 1..(Len(x) - 1) |-> IF x[i] = NaN \/ x[i + 1] = NaN THEN NaN
                                      ELSE x[i + 1] - x[i]]

\* the k-th smallest element of s (1-based)
Kth(s, k) ==
    CHOOSE v \in {s[i] : i \in 1..Len(s)} :
        /\ Cardinality({i \in 1..Len(s) : s[i] < v}) < k
        /\ Cardinality({i \in 1..Len(s) : s[i] <= v}) >= k

\* twice np.median(d) for d without NaN: the middle element, or the mean of
\* the two middle elements
MedianTwice(d) ==
    IF Len(d) % 2 = 1 THEN 2 * Kth(d, (Len(d) + 1) \div 2)
    ELSE Kth(d, Len(d) \div 2) + Kth(d, Len(d) \div 2 + 1)

\* lines 491-494 without the test dt == 0
StepTwiceKeepingZero(ref_x) ==
    LET d == Diff(ref_x)
    IN  IF \E i \in 1..Len(d) : d[i] = NaN THEN 2
        ELSE MedianTwice(d)

\* lines 491-494: twice dt; np.median is NaN when a difference is NaN
StepTwice(ref_x) ==
    LET d == Diff(ref_x)
    IN  IF \E i \in 1..Len(d) : d[i] = NaN THEN 2
        ELSE IF MedianTwice(d) = 0 THEN 2
        ELSE MedianTwice(d)

\* lines 473-475
ReferenceOf(dataset_ids, reference_dataset_id) ==
    IF reference_dataset_id # NoId /\ InSeq(dataset_ids, reference_dataset_id)
    THEN reference_dataset_id
    ELSE dataset_ids[1]

ErrorEnvelope(message) == [raised |-> FALSE, error |-> message, offsets |-> <<>>]
Unhandled == [raised |-> TRUE, error |-> "", offsets |-> <<>>]

\* align_multi_channel_datasets, src/main.py:465-522.  offsets holds twice the
\* offsets of the response (dt can be a half); raised: the handler ended with
\* an exception it does not catch.
align_multi_channel_datasets(dsk, cch, datasets, dataset_ids, channel_id, reference_dataset_id, cut, points) ==
    IF Len(dataset_ids) < 2 THEN ErrorEnvelope("Need at least two datasets to align")
    ELSE
    LET reference_id == ReferenceOf(dataset_ids, reference_dataset_id)
        target_points == IF points = NoTarget THEN DEFAULT_DOWNSAMPLE_POINTS ELSE points
        series(id) == get_alignment_series(dsk, cch, datasets, id, channel_id,
                                           cut, target_points)
        ref_series == series(reference_id)
        others == {dataset_ids[i] : i \in 1..Len(dataset_ids)} \ {reference_id}
    IN  IF ref_series.kind = "raised" THEN Unhandled
        ELSE IF ref_series.kind = "none"
        THEN ErrorEnvelope("Reference dataset or channel not found")
        ELSE IF Len(ref_series.data.x) < 2 \/ Len(ref_series.data.y) < 2
        THEN ErrorEnvelope("Reference dataset has insufficient data")
        ELSE IF \E id \in others : series(id).kind = "raised" THEN Unhandled
        ELSE [raised |-> FALSE, error |-> "",
              reference_dataset_id |-> reference_id, channel_id |-> channel_id,
              offsets |->
                  [id \in others \cup {reference_id} |->
                      IF id = reference_id THEN 0
                      ELSE IF series(id).kind = "none" THEN 0
                      ELSE IF Len(series(id).data.y) < 2 THEN 0
                      ELSE cross_correlate_lag(ref_series.data.y, series(id).data.y)
                               * StepTwice(ref_series.data.x)]]

\* the requests
AlignIdLists == {<<1>>, <<1, 2>>, <<2, 1>>, <<1, 1>>, <<1, UnknownId>>}
AlignReferences == {NoId, 2}
AlignCutRanges == {NoRange, <<1, 4>>}
AlignTargets == {NoTarget, 2}

\* upload_csv in multi-channel mode of a recording of the alignment catalog
PostRecording ==
    \E u \in AlignUploads :
        /\ clock < MaxUploads
        /\ Uploaded(u, TRUE, [at |-> NoFailure, left |-> FALSE], clock + 1)

PostAlignDatasets ==
    \E ids \in AlignIdLists, ref \in AlignReferences, ch \in QueryChannels :
        \E cut \in AlignCutRanges, tp \in AlignTargets :
            /\ resp' = [kind |-> "align",
                        req |-> [dataset_ids |-> ids, reference_dataset_id |-> ref,
                                 channel_id |-> ch, cut_range |-> cut,
                                 target_points |-> tp],
                        reply |-> align_multi_channel_datasets(disk, cache,
                                      multi_channel_datasets, ids, ch, ref, cut, tp)]
            /\ UNCHANGED <<lttb, align, parse, threads, disk, cache, clock, multi_channel_mode, regvars, sidevars>>

NextAlignDatasets ==
    \/ PostRecording
    \/ PostAlignDatasets

SpecAlignDatasets == Init /\ [][NextAlignDatasets]_vars

----------------------------------------------------------------------------
(* Ingest of files whose modification time the file system may repeat *)

\* the upload catalog with a multi-channel file of exactly LARGE_FILE_THRESHOLD
\* bytes, the size compared at src/data.py:492
IngestUploads == Uploads \cup {UploadedFile("a.csv", GoodRows, LARGE_FILE_THRESHOLD)}

\* every file is_cached (src/data.py:256-266) looks for, and all of the
\* channel files: the time file and the 16 channel files under the current key
CacheComplete(dsk, cch, filepath) ==
    /\ CacheExists(cch, get_time_cache_path(dsk, filepath))
    /\ \A i \in 1..16 : CacheExists(cch, get_cache_path(dsk, filepath, ChannelId(i)))

\* upload_csv where os.path.getmtime (src/data.py:248) of the written file is
\* either a new time or, the time stamps of the file system being coarse, the
\* time the file of that name had before
PostIngest ==
    \E u \in IngestUploads, mode \in BOOLEAN, io \in Failures :
        \E mt \in {clock + 1} \cup {disk[u.filename].mtime : b \in {disk[u.filename].exists}} :
            /\ clock < MaxUploads
            /\ 1 <= mt
            /\ Uploaded(u, mode, io, mt)

NextIngest ==
    \/ PostIngest
    \/ PostUploadTooLarge
    \/ PostClear
    \/ GetMetadata

SpecIngest == Init /\ [][NextIngest]_vars

----------------------------------------------------------------------------
(* Slice queries over recordings held by either backend *)

\* the key load_data gives channel AI2-01 of a.csv in legacy mode
LegacyChannel == SeriesName(ChannelId(1), Stem("a.csv"), FALSE)

RangedIds == {NoId, 1}
RangedChannels == {ChannelId(1), LegacyChannel}
RangedTargets == {3, 4}
RangedIndexRanges == {<<0, NoEnd>>, <<1, 3>>, <<0, 9>>, <<3, 1>>}
RangedTimeWindows == {<<0, 4>>, <<1, 2>>, <<2, F32(Unrounded)>>}

\* upload_csv of a recording of the slice-query catalog, in either mode
PostQueryUpload ==
    \E u \in QueryUploads, mode \in BOOLEAN :
        /\ clock < MaxUploads
        /\ Uploaded(u, mode, [at |-> NoFailure, left |-> FALSE], clock + 1)

\* get_channel_data, src/main.py:354-387, with start_idx and end_idx given
GetChannelDataRanged ==
    \E id \in RangedIds, c \in RangedChannels, r \in RangedIndexRanges, k \in RangedTargets :
        /\ resp' = [kind |-> "channel-data",
                    req |-> [dataset_id |-> id, channel_id |-> c, start_idx |-> r[1],
                             end_idx |-> r[2], target_points |-> k],
                    reply |-> ChannelDataReply(disk, cache, multi_channel_mode, data,
                                  multi_channel_datasets, multi_channel_order,
                                  id, c, r[1], r[2], k)]
        /\ UNCHANGED <<lttb, align, parse, threads, disk, cache, clock, multi_channel_mode, regvars, sidevars>>

\* get_channel_data_by_time, src/main.py:390-423
GetChannelDataWindow ==
    \E id \in RangedIds, c \in RangedChannels, w \in RangedTimeWindows, k \in RangedTargets :
        /\ resp' = [kind |-> "channel-data-by-time",
                    req |-> [dataset_id |-> id, channel_id |-> c, start_time |-> w[1],
                             end_time |-> w[2], target_points |-> k],
                    reply |-> ChannelDataByTimeReply(disk, cache, multi_channel_mode, data,
                                  multi_channel_datasets, multi_channel_order,
                                  id, c, w[1], w[2], k)]
        /\ UNCHANGED <<lttb, align, parse, threads, disk, cache, clock, multi_channel_mode, regvars, sidevars>>

NextQuery ==
    \/ PostQueryUpload
    \/ GetChannelDataRanged
    \/ GetChannelDataWindow

SpecQuery == Init /\ [][NextQuery]_vars

----------------------------------------------------------------------------
(* Ingest of files with and without the expected header *)

\* upload_csv of a file of the header-check catalog, in either mode
PostFormatUpload ==
    \E u \in FormatUploads, mode \in BOOLEAN :
        /\ clock < MaxUploads
        /\ Uploaded(u, mode, [at |-> NoFailure, left |-> FALSE], clock + 1)

NextFormat ==
    \/ PostFormatUpload
    \/ GetListings

SpecFormat == Init /\ [][NextFormat]_vars

----------------------------------------------------------------------------
(* Handlers step by step.  The async def handlers (upload_csv,               *)
(* clear_all_data) run one after another on the event loop; the def          *)
(* handlers (the queries) run in the thread pool and interleave with them    *)
(* between any two statements.  No lock is taken anywhere in src/.           *)

ThreadUploads ==
    { UploadedFile("b.csv", GoodRows, 4096),
      UploadedFile("a.csv", GoodRows, LARGE_FILE_THRESHOLD + 1) }

\* upload_csv in multi-channel mode up to src/data.py:511: the file is
\* written and parsed, the record is stored in the dataset mapping
IngestStore ==
    \E u \in ThreadUploads :
        /\ threads.writer.pc = "idle"
        /\ clock < MaxUploads
        /\ LET dsk == [disk EXCEPT ![u.filename] =
                          [exists |-> TRUE, rows |-> u.rows, size |-> u.size,
                           mtime |-> clock + 1]]
               out == add_multi_channel_file(dsk, cache, Reg, u.filename,
                                             [at |-> NoFailure, left |-> FALSE])
           IN  /\ out.status = "ok"
               /\ disk' = dsk
               /\ clock' = clock + 1
               /\ multi_channel_mode' = TRUE
               /\ cache' = out.cache
               /\ multi_channel_datasets' = out.reg.datasets
               /\ next_id' = out.reg.next_id
               /\ threads' = [threads EXCEPT !.writer =
                                 [pc |-> "stored", id |-> out.id, filepath |-> u.filename]]
        /\ UNCHANGED <<lttb, align, parse, data, file_list, channel_names, multi_channel_order, sidevars, resp>>

\* src/data.py:512-525 and the reply of upload_csv
IngestAppend ==
    /\ threads.writer.pc = "stored"
    /\ multi_channel_order' = Append(multi_channel_order, threads.writer.id)
    /\ file_list' = AppendIfAbsent(file_list, threads.writer.filepath)
    /\ resp' = [kind |-> "upload", mode |-> TRUE, error |-> FALSE,
                format_error |-> FALSE, dataset_id |-> threads.writer.id]
    /\ threads' = [threads EXCEPT !.writer = [pc |-> "idle"]]
    /\ UNCHANGED <<lttb, align, parse, disk, cache, clock, multi_channel_mode, data, channel_names, multi_channel_datasets, next_id, sidevars>>

\* clear_data, src/data.py:838-847: everything but the order list is reset
ClearMapping ==
    /\ threads.writer.pc = "idle"
    /\ data' = EmptyDict
    /\ file_list' = <<>>
    /\ channel_names' = <<>>
    /\ channel_offsets' = <<>>
    /\ channel_cut_ranges' = <<>>
    /\ multi_channel_datasets' = <<>>
    /\ threads' = [threads EXCEPT !.writer = [pc |-> "cleared"]]
    /\ UNCHANGED <<lttb, align, parse, disk, cache, clock, multi_channel_mode, multi_channel_order, next_id, resp>>

\* src/data.py:848 and the rest of clear_all_data, src/main.py:325-339
ClearOrder ==
    /\ threads.writer.pc = "cleared"
    /\ multi_channel_order' = <<>>
    /\ disk' = [f \in FileNames |-> NoFile]
    /\ resp' = [kind |-> "clear",
                deleted_files |-> {f \in FileNames : disk[f].exists}]
    /\ threads' = [threads EXCEPT !.writer = [pc |-> "idle"]]
    /\ UNCHANGED <<lttb, align, parse, cache, clock, multi_channel_mode, data, file_list, channel_names, multi_channel_datasets, next_id, sidevars>>

\* get_multi_channel_dataset_data, src/main.py:449 and src/data.py:558-564:
\* the mapping is asked for the record of one id
DataLookup ==
    \E id \in RenameIds :
        /\ threads.reader.pc = "idle"
        /\ threads' = [threads EXCEPT !.reader =
                          [pc |-> "data",
                           held |-> {id} \cap DOMAIN multi_channel_datasets]]
        /\ UNCHANGED <<lttb, align, parse, disk, cache, clock, multi_channel_mode, regvars, sidevars, resp>>

\* get_multi_channel_datasets, src/data.py:530: the loop takes the order
\* list, as the whole of /multi-channel/datasets (src/main.py:443) or after
\* the lookup of /multi-channel/data (src/main.py:450)
ListBegin ==
    /\ threads.reader.pc \in {"idle", "data"}
    /\ threads' = [threads EXCEPT !.reader =
                      [pc |-> "listing", order |-> multi_channel_order,
                       held |-> IF threads.reader.pc = "data"
                                THEN threads.reader.held ELSE {}]]
    /\ UNCHANGED <<lttb, align, parse, disk, cache, clock, multi_channel_mode, regvars, sidevars, resp>>

\* src/data.py:531-533: the mapping is asked for the record of every id of
\* the list taken
ListLookup ==
    /\ threads.reader.pc = "listing"
    /\ threads' = [threads EXCEPT !.reader =
                      [pc |-> "observed", order |-> threads.reader.order,
                       held |-> threads.reader.held,
                       found |-> {threads.reader.order[i] :
                                     i \in 1..Len(threads.reader.order)}
                                 \cap DOMAIN multi_channel_datasets]]
    /\ UNCHANGED <<lttb, align, parse, disk, cache, clock, multi_channel_mode, regvars, sidevars, resp>>

\* _resolve_dataset of a slice or metadata query without a dataset id,
\* src/data.py:549: the order list is tested
ResolveBegin ==
    /\ threads.reader.pc = "idle"
    /\ threads' = [threads EXCEPT !.reader =
                      IF multi_channel_order # <<>> THEN [pc |-> "resolving"]
                      ELSE [pc |-> "observed", order |-> <<>>, held |-> {},
                            found |-> {}]]
    /\ UNCHANGED <<lttb, align, parse, disk, cache, clock, multi_channel_mode, regvars, sidevars, resp>>

\* src/data.py:550: the mapping is asked for the last id of the order list;
\* [-1] on a list emptied in the meantime raises IndexError
ResolveLookup ==
    /\ threads.reader.pc = "resolving"
    /\ threads' = [threads EXCEPT !.reader =
                      IF multi_channel_order = <<>> THEN [pc |-> "raised"]
                      ELSE LET last == multi_channel_order[Len(multi_channel_order)]
                           IN  [pc |-> "observed", order |-> <<last>>, held |-> {},
                                found |-> {last} \cap DOMAIN multi_channel_datasets]]
    /\ UNCHANGED <<lttb, align, parse, disk, cache, clock, multi_channel_mode, regvars, sidevars, resp>>

\* the query returns
ReaderReturn ==
    /\ threads.reader.pc \in {"observed", "raised"}
    /\ threads' = [threads EXCEPT !.reader = [pc |-> "idle"]]
    /\ UNCHANGED <<lttb, align, parse, disk, cache, clock, multi_channel_mode, regvars, sidevars, resp>>

NextThreads ==
    \/ IngestStore
    \/ IngestAppend
    \/ ClearMapping
    \/ ClearOrder
    \/ DataLookup
    \/ ListBegin
    \/ ListLookup
    \/ ResolveBegin
    \/ ResolveLookup
    \/ ReaderReturn

SpecThreads == Init /\ [][NextThreads]_vars

----------------------------------------------------------------------------
(* Claims *)

C2_LttbMonotone ==
    (LttbSampled /\ NonDecreasing(lttb.x)) =>
        /\ NonDecreasing(lttb.out.x)
        /\ NonDecreasing(lttb.idx)

\* a downsampling call on a non-decreasing, non-constant x
C2_Witness ==
    /\ LttbSampled
    /\ NonDecreasing(lttb.x)
    /\ lttb.x[1] < lttb.x[Len(lttb.x)]
    /\ lttb.out.x[1] < lttb.out.x[Len(lttb.out.x)]

----------------------------------------------------------------------------
(* Claims about the registry and the request handlers, under Spec *)

\* C3: every registered dataset, small or large, has for every channel c an x
\* and a y of length metadata total_rows, and metadata time_range equal to
\* (x[0], x[-1]) of that channel, also when the file has empty non-time cells.
\* (A large dataset is read through its cache files where they can be loaded.)
C3_RowCountsAgree ==
    \A id \in DOMAIN multi_channel_datasets :
        LET ds == multi_channel_datasets[id]
            md == ds.metadata
            tp == get_time_cache_path(disk, ds.filepath)
        IN  \A k \in 1..Len(ds.channels) :
                LET c == ds.channels[k]
                    cp == get_cache_path(disk, ds.filepath, c)
                    readable == IF ds.is_large_file
                                THEN Loadable(cache, tp) /\ Loadable(cache, cp)
                                ELSE HasKey(ds.data, c)
                    x == IF ds.is_large_file THEN cache[tp].data ELSE ds.data.val[c].x
                    y == IF ds.is_large_file THEN cache[cp].data ELSE ds.data.val[c].y
                IN  readable =>
                        /\ Len(x) = md.total_rows
                        /\ Len(y) = md.total_rows
                        /\ Len(x) > 0 => md.time_range = <<x[1], x[Len(x)]>>

\* C4: a slice query or metadata query that carries the id of a registered
\* multi-channel dataset is answered from that dataset, and one that carries no
\* id from the most recently added dataset, whatever uploads (multi-channel or
\* legacy), renames and side-table updates came before.  (A registered dataset
\* was uploaded after the last clear, so no clear lies in between.)
C4_QueryAnsweredFromDataset ==
    LET id == resp.req.dataset_id
        applies == /\ multi_channel_order # <<>>
                   /\ id = NoId \/ id \in DOMAIN multi_channel_datasets
        ds == multi_channel_datasets[IF id = NoId
                                     THEN multi_channel_order[Len(multi_channel_order)]
                                     ELSE id]
    IN  /\ (resp.kind = "channel-data" /\ applies) =>
               LET got == dataset_channel_data(disk, cache, ds, resp.req.channel_id,
                              resp.req.start_idx, resp.req.end_idx,
                              resp.req.target_points)
               IN  resp.reply.error = got.raised /\ resp.reply.data = got.data
        /\ (resp.kind = "channel-data-by-time" /\ applies) =>
               LET got == dataset_channel_data_by_time(disk, cache, ds,
                              resp.req.channel_id, resp.req.start_time,
                              resp.req.end_time, resp.req.target_points)
               IN  resp.reply.error = got.raised /\ resp.reply.data = got.data
        /\ (resp.kind = "metadata" /\ applies) =>
               resp.reply = MetadataReply(Metadata(ds.metadata.total_rows, ds.channels,
                                                   ds.metadata.time_range),
                                          ds.is_large_file)

\* C5: in multi-channel mode a slice query (by index or by time) that names a
\* dataset id not in the registry, or a channel the resolved dataset does not
\* have, returns the empty series {x: [], y: []}, other datasets registered or not.
C5_UnknownGivesEmpty ==
    (resp.kind \in {"channel-data", "channel-data-by-time"} /\ multi_channel_mode) =>
        LET id == resp.req.dataset_id
            rid == resolve_dataset(multi_channel_datasets, multi_channel_order, id)
            unknown_dataset == id # NoId /\ id \notin DOMAIN multi_channel_datasets
            unknown_channel == /\ rid # NoId
                               /\ ~InSeq(multi_channel_datasets[rid].channels,
                                         resp.req.channel_id)
        IN  (unknown_dataset \/ unknown_channel) => resp.reply.data = EmptySeries

\* C6: a clear leaves the flat map, the dataset mapping, the order list and the
\* three side tables empty, so /data, /metadata, /channels and
\* /multi-channel/datasets report no series, zero rows, no channels, no datasets.
C6_ClearEmptiesEverything ==
    resp.kind = "clear" =>
        /\ data = EmptyDict
        /\ multi_channel_datasets = <<>>
        /\ multi_channel_order = <<>>
        /\ channel_names = <<>>
        /\ channel_offsets = <<>>
        /\ channel_cut_ranges = <<>>
        /\ \A id \in QueryIds :
               LET m == get_metadata(multi_channel_mode, data, multi_channel_datasets,
                                     multi_channel_order, id)
               IN  m.total_rows = 0 /\ m.channels = <<>>
        /\ LET c == ChannelsReply(multi_channel_mode, data, multi_channel_datasets,
                                  multi_channel_order, channel_names)
           IN  c.channels = <<>> /\ c.channel_names = <<>> /\ c.total_rows = 0
        /\ get_multi_channel_datasets(multi_channel_datasets, multi_channel_order) = <<>>

\* a clear after a multi-channel upload that registered a dataset and a later
\* legacy upload, both files deleted by the clear
C6_Witness ==
    /\ resp.kind = "clear"
    /\ resp.deleted_files = FileNames
    /\ next_id = 2
    /\ ~multi_channel_mode

\* C7: after a clear no cache file materialized for a previously ingested
\* large dataset remains in the cache directory.
C7_ClearRemovesCacheFiles ==
    resp.kind = "clear" => DOMAIN cache = {}

\* C8: while a dataset stays registered (from its ingest to the next clear)
\* its id, its metadata and the series every slice query returns for its
\* channels are the same after every step as before it; a display-name update
\* changes the name only.
C8_DatasetFrame ==
    [][\A id \in DOMAIN multi_channel_datasets \cap DOMAIN multi_channel_datasets' :
          LET before == multi_channel_datasets[id]
              after == multi_channel_datasets'[id]
          IN  /\ after.id = before.id
              /\ after.metadata = before.metadata
              /\ after.channels = before.channels
              /\ \A c \in QueryChannels, r \in IndexRanges, k \in QueryTargets :
                     dataset_channel_data(disk', cache', after, c, r[1], r[2], k)
                         = dataset_channel_data(disk, cache, before, c, r[1], r[2], k)
              /\ \A c \in QueryChannels, w \in TimeWindows, k \in QueryTargets :
                     dataset_channel_data_by_time(disk', cache', after, c, w[1], w[2], k)
                         = dataset_channel_data_by_time(disk, cache, before, c,
                                                        w[1], w[2], k)]_vars

\* C9: a failed upload commits nothing: the dataset mapping, the order list,
\* the flat map and the mode flag that routes the queries are the same after
\* it as before it.
C9_FailedUploadNotCommitted ==
    [][(resp'.kind = "upload" /\ resp'.error) =>
          /\ multi_channel_datasets' = multi_channel_datasets
          /\ multi_channel_order' = multi_channel_order
          /\ data' = data
          /\ multi_channel_mode' = multi_channel_mode]_vars

\* C10: no cache file is visible under its canonical name with incomplete
\* content, and a materialization that fails leaves no file it wrote visible.
C10_MaterializationAtomic ==
    [][/\ \A p \in DOMAIN cache' : cache'[p].complete
       /\ (resp'.kind = "upload" /\ resp'.error) => DOMAIN cache' \subseteq DOMAIN cache]_vars

\* C11: an upload in multi-channel mode that registers a large dataset leaves
\* the time file and all 16 channel files in the cache under the key of the
\* file's path and modification time, whether the cache entry was written by
\* this upload or reused from an earlier one.
C11_RegisteredLargeIsCacheComplete ==
    (/\ resp.kind = "upload"
     /\ ~resp.error
     /\ resp.dataset_id # NoId
     /\ multi_channel_datasets[resp.dataset_id].is_large_file)
        => CacheComplete(disk, cache, multi_channel_datasets[resp.dataset_id].filepath)


\* C12 (as stated): for a non-constant signal s, lag(s, s) = 0, and with the
\* target being s shifted right by k samples lag(s, target) = k.
C12_LagOfShiftedIsShift ==
    (align.pc = "done" /\ NonConstant(align.template)) =>
        /\ align.target = align.template => align.lag = 0
        /\ \A k \in 1..MaxShift :
               align.target = Delayed(align.template, k) => align.lag = k

\* C12 (amended): for a non-constant signal s, lag(s, s) = 0; for a
\* non-constant signal s of mean zero delayed by k samples, lag(s, delayed) is
\* -k and lag(delayed, s) is k.
C12_LagOfDelayedIsMinusDelay ==
    align.pc = "done" =>
        /\ (NonConstant(align.template) /\ align.target = align.template) => align.lag = 0
        /\ \A k \in 1..MaxShift :
               /\ (/\ NonConstant(align.template)
                   /\ SumSeq(align.template) = 0
                   /\ align.target = Delayed(align.template, k)) => align.lag = 0 - k
               /\ (/\ NonConstant(align.target)
                   /\ SumSeq(align.target) = 0
                   /\ align.template = Delayed(align.target, k)) => align.lag = k

C12_Witness ==
    /\ align.pc = "done"
    /\ Len(align.template) = MaxSig
    /\ NonConstant(align.template)
    /\ SumSeq(align.template) = 0
    /\ align.target = Delayed(align.template, MaxShift)
    /\ align.lag = 0 - MaxShift


\* the target moved by d samples toward larger indices (d < 0: toward smaller
\* ones), seen through the index window 1..n of the template
Moved(v, d, n) == [j \in 1..n |-> IF 1 <= j - d /\ j - d <= Len(v) THEN v[j - d] ELSE 0]

\* the zero-mean correlation of the template with the target moved by d
MovedCorrelation(template, target, d) ==
    LET a == MeanSubtracted(template)
        m == Moved(MeanSubtracted(target), d, Len(template))
    IN  SumSeq([j \in 1..Len(a) |-> a[j] * m[j]])

\* C13: when cross_correlate_lag(template, target) returns L, moving the target
\* by L samples toward larger indices gives a zero-mean correlation with the
\* template that no other move exceeds; in particular a positive L is never
\* beaten by the move of L samples to the left.
C13_LagMaximizesMovedCorrelation ==
    align.pc = "done" =>
        \A d \in (0 - (MaxSig + MaxShift))..(MaxSig + MaxShift) :
            MovedCorrelation(align.template, align.target, d)
                <= MovedCorrelation(align.template, align.target, align.lag)

C13_Witness ==
    /\ align.pc = "done"
    /\ align.lag > 0
    /\ Len(align.template) # Len(align.target)
    /\ \A d \in (0 - (MaxSig + MaxShift))..(MaxSig + MaxShift) :
           d # align.lag =>
               MovedCorrelation(align.template, align.target, d)
                   < MovedCorrelation(align.template, align.target, align.lag)


\* the last request was a dataset alignment of at least two ids that was
\* answered with an offsets map
AlignAnswered ==
    /\ resp.kind = "align"
    /\ Len(resp.req.dataset_ids) >= 2
    /\ ~resp.reply.raised
    /\ resp.reply.error = ""

\* the signal get_alignment_series gives for a dataset of the last request
RequestSeries(id) ==
    get_alignment_series(disk, cache, multi_channel_datasets, id, resp.req.channel_id,
        resp.req.cut_range,
        IF resp.req.target_points = NoTarget THEN DEFAULT_DOWNSAMPLE_POINTS
        ELSE resp.req.target_points)

RequestReference ==
    IF InSeq(resp.req.dataset_ids, resp.req.reference_dataset_id)
    THEN resp.req.reference_dataset_id
    ELSE resp.req.dataset_ids[1]

RequestIds == {resp.req.dataset_ids[i] : i \in 1..Len(resp.req.dataset_ids)}

\* twice the median step of the reference x unless it is not finite, then 2
MedianStepTwice(x) ==
    IF \E i \in 1..Len(x) : x[i] = NaN THEN 2 ELSE MedianTwice(Diff(x))

C17_AlignAlwaysAnswers ==
    resp.kind = "align" =>
        /\ ~resp.reply.raised
        /\ (\/ Len(resp.req.dataset_ids) < 2
            \/ RequestSeries(RequestReference).kind = "none") =>
               (resp.reply.error # "" /\ resp.reply.offsets = <<>>)
        /\ AlignAnswered =>
               \A id \in RequestIds \ {RequestReference} :
                   (\/ RequestSeries(id).kind = "none"
                    \/ Len(RequestSeries(id).data.y) < 2) => resp.reply.offsets[id] = 0


\* the signal of a loaded series as the alignment reads it
SignalOf(name) == get_signal_segment(AllData[name], CutOf(align.cut_ranges, name))

Members(g) == {g.series[i] : i \in 1..Len(g.series)}

\* the lag of a listed series within its group: 0 for the template and for a
\* series that is not loaded, else its lag against the group's template
IntraLag(g, name) ==
    IF name = g.series[1] \/ name \notin DOMAIN AllData THEN 0
    ELSE cross_correlate_lag(SignalOf(g.series[1]), SignalOf(name))

\* the call of SpecHier has returned, and the reference group exists, is not
\* empty and has a loaded template
HierReferenced ==
    /\ align.pc = "done"
    /\ \E i \in 1..Len(align.groups) :
           /\ align.groups[i].name = align.reference_group
           /\ align.groups[i].series # <<>>
           /\ align.groups[i].series[1] \in DOMAIN AllData

ReferenceGroup == CHOOSE g \in Members([series |-> align.groups]) : g.name = align.reference_group

\* C15: with a reference group that exists, is not empty and has a loaded
\* template, every member of the reference group ends with its intra-group
\* lag, and every member of every other group (with a loaded template) ends
\* with its intra-group lag plus the lag of that group's template against the
\* reference template, added once; for every groups mapping.
C15_DeltaAddedOnce ==
    HierReferenced =>
        \A i \in 1..Len(align.groups) :
            LET g == align.groups[i]
            IN  (g.series # <<>> /\ g.series[1] \in DOMAIN AllData) =>
                    \A name \in Members(g) :
                        /\ name \in DOMAIN align.offsets
                        /\ align.offsets[name] =
                               IF g.name = align.reference_group THEN IntraLag(g, name)
                               ELSE IntraLag(g, name)
                                    + cross_correlate_lag(SignalOf(ReferenceGroup.series[1]),
                                                          SignalOf(g.series[1]))


\* C16: every series listed in a non-empty group appears in the returned
\* offsets, and a listed series that is not loaded gets offset 0, also when it
\* is the first one (the template) of its group.
C16_ListedSeriesAppear ==
    align.pc = "done" =>
        \A i \in 1..Len(align.groups) :
            \A name \in Members(align.groups[i]) :
                /\ name \in DOMAIN align.offsets
                /\ name \notin DOMAIN AllData => align.offsets[name] = 0


\* the series values in column order, without their names
ValuesOf(loaded) == [i \in 1..Len(loaded.data.keys) |-> loaded.data.val[loaded.data.keys[i]]]

PlainHeader ==
    /\ parse.rows # <<>> => Len(parse.header) = Len(parse.rows[1])
    /\ \A i, j \in 1..Len(parse.header) : parse.header[i] = parse.header[j] => i = j
    /\ \A i \in 1..Len(parse.header) :
           Lower(Strip(parse.header[i])) \notin TimeHeaderNames

C19_InteriorPointInItsBucket ==
    LttbSampled =>
        LET n == Len(lttb.x)
            K == lttb.target_points
        IN  /\ \A i \in 0..(K - 3) :
                   /\ Max(1, ((i * (n - 2)) \div (K - 2)) + 1) <= lttb.idx[i + 2]
                   /\ lttb.idx[i + 2] < Min(n - 1, (((i + 1) * (n - 2)) \div (K - 2)) + 1)
            /\ \A k \in 1..(K - 1) : lttb.idx[k] # n - 1


\* C20: a file ingested in multi-channel mode becomes a large (cache-backed)
\* dataset exactly when its size is at least 50 MB (LARGE_FILE_THRESHOLD
\* bytes), a file of exactly that size being large; a file ingested outside
\* multi-channel mode becomes no large dataset.
C20_LargeIffAtLeastThreshold ==
    (resp.kind = "upload" /\ ~resp.error) =>
        IF resp.mode
        THEN /\ resp.dataset_id # NoId
             /\ multi_channel_datasets[resp.dataset_id].is_large_file
                    <=> disk[multi_channel_datasets[resp.dataset_id].filepath].size
                            >= LARGE_FILE_THRESHOLD
        ELSE resp.dataset_id = NoId

----------------------------------------------------------------------------
(* Claims about the slice queries, under SpecQuery *)

\* the samples a registered dataset holds for its k-th channel: the series of
\* the record, or the float32 columns the cache files were written from
StoredSeries(ds, k) ==
    IF ds.is_large_file
    THEN Series(ColumnArray(disk[ds.filepath].rows, 1),
                ColumnArray(disk[ds.filepath].rows, k + 1))
    ELSE ds.data.val[ds.channels[k]]

\* the reply is the slice s[start_idx : min(end_idx, total_rows)] of series s
\* as it is when that has at most target_points samples, target_points
\* samples when it has more, nothing when start_idx > end_idx
SlicedAsSpecified(reply, s, start_idx, end_idx, target_points) ==
    LET e == IF end_idx = NoEnd THEN Len(s.x) ELSE Min(end_idx, Len(s.x))
        xs == Slice(s.x, start_idx, e)
        ys == Slice(s.y, start_idx, e)
    IN  /\ ~reply.error
        /\ Len(xs) <= target_points => reply.data = Series(xs, ys)
        /\ Len(xs) > target_points =>
               Len(reply.data.x) = target_points /\ Len(reply.data.y) = target_points
        /\ (end_idx # NoEnd /\ start_idx > end_idx) => reply.data = EmptySeries
        /\ Len(reply.data.x) <= target_points

\* C21: for every registered dataset (small or large, queried through
\* /channel-data in either routing mode), channel, 0 <= start, end and K >= 3,
\* the index-range query returns the samples x[start : min(end, total_rows)]
\* unchanged when that slice has at most K samples, exactly K samples when it
\* has more, the empty series when start > end, and never more than K points.
C21_IndexRangeSliced ==
    resp.kind = "channel-data" =>
        LET c == resp.req.channel_id
            rid == resolve_dataset(multi_channel_datasets, multi_channel_order,
                                   resp.req.dataset_id)
        IN  /\ (multi_channel_mode /\ rid # NoId) =>
                   \A k \in 1..Len(multi_channel_datasets[rid].channels) :
                       multi_channel_datasets[rid].channels[k] = c =>
                           SlicedAsSpecified(resp.reply,
                               StoredSeries(multi_channel_datasets[rid], k),
                               resp.req.start_idx, resp.req.end_idx,
                               resp.req.target_points)
            /\ (~multi_channel_mode /\ HasKey(data, c)) =>
                   SlicedAsSpecified(resp.reply, data.val[c], resp.req.start_idx,
                                     resp.req.end_idx, resp.req.target_points)

\* the answer of the cache-backed backend holding the recording of dataset
\* ds: get_channel_data_by_time on the cache parse_and_cache writes for it
LargeBackendByTime(ds, channel_id, start_time, end_time, target_points) ==
    handler_get_channel_data_by_time(disk,
        parse_and_cache(disk, <<>>, ds.filepath, [at |-> NoFailure, left |-> FALSE]).cache,
        ds.filepath, channel_id, start_time, end_time, target_points)

\* C22: for every dataset, channel and window [t_start, t_end], the
\* time-range query on the small (in-memory) backend selects the same samples,
\* in the same order, as the index-range query with start = lower_bound(x,
\* t_start) and end = upper_bound(x, t_end) that the large (cache-backed)
\* backend uses: the same recording gives the same slice whichever backend
\* holds it.
C22_BackendsSelectSameSlice ==
    (resp.kind = "channel-data-by-time" /\ multi_channel_mode) =>
        LET rid == resolve_dataset(multi_channel_datasets, multi_channel_order,
                                   resp.req.dataset_id)
            ds == multi_channel_datasets[rid]
            c == resp.req.channel_id
        IN  (rid # NoId /\ ~ds.is_large_file /\ HasKey(ds.data, c)) =>
                LET x == ds.data.val[c].x
                    by_index == small_channel_data(ds, c,
                                    searchsorted(x, resp.req.start_time, "left"),
                                    searchsorted(x, resp.req.end_time, "right"),
                                    resp.req.target_points)
                    by_cache == LargeBackendByTime(ds, c, resp.req.start_time,
                                    resp.req.end_time, resp.req.target_points)
                IN  /\ ~resp.reply.error
                    /\ resp.reply.data = by_index.data
                    /\ ~by_cache.raised /\ resp.reply.data = by_cache.data

----------------------------------------------------------------------------
(* Claims about the header check, under SpecFormat *)

\* the file written by the upload this step makes: the one stamped clock'
UploadedName == CHOOSE f \in FileNames : disk'[f].exists /\ disk'[f].mtime = clock'

\* the first row of the file is time[s], AI2-01, ..., AI2-16 after trim and
\* BOM strip
HeaderExact(file_rows) ==
    LET rows == SelectSeq(file_rows, LAMBDA r : r # <<>>)
    IN  rows # <<>> /\ validate_multi_channel_format(rows[1])

\* C23: every file ingested in multi-channel mode whose header is not exactly
\* time[s], AI2-01, ..., AI2-16 (after trim and BOM strip) is rejected with a
\* FormatMismatch and no dataset is registered; this includes an empty file, a
\* file with no header row, and a file with a wrong header and no data rows.
C23_WrongHeaderRejected ==
    [][(/\ resp'.kind = "upload" /\ resp'.mode /\ clock' = clock + 1
        /\ ~HeaderExact(disk'[UploadedName].rows)) =>
          /\ resp'.format_error
          /\ multi_channel_datasets' = multi_channel_datasets
          /\ multi_channel_order' = multi_channel_order]_vars

\* the file the last upload wrote: the one stamped with the current clock
LastUploaded == CHOOSE f \in FileNames : disk[f].exists /\ disk[f].mtime = clock

HasBom(file_rows) ==
    /\ file_rows # <<>> /\ file_rows[1] # <<>> /\ file_rows[1][1] # <<>>
    /\ file_rows[1][1][1] = Bom

\* the same file without the byte order mark
WithoutBom(file_rows) == [file_rows EXCEPT ![1][1] = Tail(@)]

\* the time axis a registered dataset serves for channel c
DatasetX(ds, c) ==
    IF ds.is_large_file THEN cache[get_time_cache_path(disk, ds.filepath)].data
    ELSE ds.data.val[c].x

\* C25: a CSV whose first header cell carries a leading BOM is parsed to the
\* same series (same ids, same time column used as x, same y values) as the
\* same file without the BOM; in particular a multi-channel file whose first
\* header cell is BOM + time[s] is accepted and yields exactly the 16 channels
\* AI2-01 .. AI2-16 with x taken from the time column.
C25_BomIgnored ==
    (resp.kind = "upload" /\ clock > 0 /\ HasBom(disk[LastUploaded].rows)) =>
        LET file_rows == disk[LastUploaded].rows
            size == disk[LastUploaded].size
        IN  /\ size <= LARGE_FILE_THRESHOLD =>
                   LoadFile(file_rows, Stem(LastUploaded), resp.mode)
                       = LoadFile(WithoutBom(file_rows), Stem(LastUploaded), resp.mode)
            /\ (resp.mode /\ file_rows = WithBom(GoodRows)) =>
                   /\ ~resp.error
                   /\ resp.dataset_id \in DOMAIN multi_channel_datasets
                   /\ LET ds == multi_channel_datasets[resp.dataset_id]
                      IN  /\ ds.channels = [i \in 1..EXPECTED_CHANNEL_COUNT |-> ChannelId(i)]
                          /\ \A i \in 1..EXPECTED_CHANNEL_COUNT :
                                 DatasetX(ds, ChannelId(i)) = ColumnArray(GoodRows, 1)

----------------------------------------------------------------------------
(* Claims about concurrent handlers, under SpecThreads *)

\* C24: with slice, metadata and listing queries running concurrently with
\* ingest and clear, no reader ever observes a registry state in which the
\* insertion-order list contains an id that is absent from the dataset
\* mapping, or the dataset mapping contains an id that is absent from the
\* order list: ingest's insertion and clear's reset each appear atomic to
\* readers.
C24_ReadersSeeConsistentRegistry ==
    threads.reader.pc = "observed" =>
        LET listed == {threads.reader.order[i] : i \in 1..Len(threads.reader.order)}
        IN  /\ listed \subseteq threads.reader.found
            /\ threads.reader.held \subseteq listed

----------------------------------------------------------------------------
(* Claims about the registry after completed operations, under Spec *)

\* the order list has no duplicate id, its ids are the keys of the dataset
\* mapping, every record is stored under its own id; the ids in use were all
\* given out already
RegistryConsistent ==
    /\ \A i, j \in 1..Len(multi_channel_order) :
           multi_channel_order[i] = multi_channel_order[j] => i = j
    /\ {multi_channel_order[i] : i \in 1..Len(multi_channel_order)}
           = DOMAIN multi_channel_datasets
    /\ \A id \in DOMAIN multi_channel_datasets : multi_channel_datasets[id].id = id
    /\ \A id \in DOMAIN multi_channel_datasets : 1 <= id /\ id < next_id

\* C26: after any sequence of completed operations (multi-channel ingests
\* that succeed or fail, legacy ingests, renames, queries, clears) the
\* insertion-order list has no duplicate id, its set of ids equals the key set
\* of the dataset mapping, every record's stored id equals its key, and an id
\* once given to a dataset is never given to another dataset (every id below
\* next_id has been given; a new dataset gets an id not below it).
C26_RegistryConsistent ==
    [][/\ RegistryConsistent'
       /\ next_id' >= next_id
       /\ \A id \in DOMAIN multi_channel_datasets' :
              \/ id >= next_id /\ id \notin DOMAIN multi_channel_datasets
              \/ /\ id \in DOMAIN multi_channel_datasets
                 /\ multi_channel_datasets'[id].filepath = multi_channel_datasets[id].filepath
                 /\ multi_channel_datasets'[id].metadata = multi_channel_datasets[id].metadata]_vars

\* a dataset registered after a clear, under an id that no earlier dataset had
C26_Witness ==
    /\ resp.kind = "upload" /\ resp.dataset_id = 2
    /\ multi_channel_order = <<2>>
    /\ DOMAIN multi_channel_datasets = {2}

====
